---------------------------- MODULE Spec2Model ----------------------------
(***************************************************************************)
(* Model of the page tree and content store of django-page-cms             *)
(* (pages/models.py, pages/managers.py).                                   *)
(*                                                                         *)
(* The page table is the function `pages` (id -> row).  The MPTT ordering  *)
(* columns (tree_id, lft, rgt) are represented by `children`: for every    *)
(* page id, and for 0 (the forest of root pages), the ordered list of its  *)
(* child ids; "order_by('lft')" is the preorder walk of these lists.       *)
(* Strings are TLA+ strings, built with \o exactly as the code builds      *)
(* them with '%s/%s' and '-' + str(next).                                  *)
(***************************************************************************)
EXTENDS Integers, Sequences, FiniteSets, TLC

VARIABLES pages, children, contents, cache, now, last, proc, settings, aliases,
          calls, held

vars == <<pages, children, contents, cache, now, last, proc, settings, aliases,
          calls, held>>

-----------------------------------------------------------------------------
(* Bounds *)

MaxPages == 3

MaxTime == 3

\* settings.PAGE_CONTENT_REVISION_DEPTH, the number of versions kept per key
RevisionDepth == 2

Slugs == {"a", "b"}

Positions == {"first-child", "last-child", "left", "right"}

Ids == 1..MaxPages

-----------------------------------------------------------------------------
(* Sequence helpers *)

SeqToSet(s) == {s[i] : i \in 1..Len(s)}

RemoveFrom(s, x) == SelectSeq(s, LAMBDA y : y # x)

IndexOf(s, x) == CHOOSE i \in 1..Len(s) : s[i] = x

InsertAt(s, i, x) == SubSeq(s, 1, i - 1) \o <<x>> \o SubSeq(s, i, Len(s))

-----------------------------------------------------------------------------
(* Tree queries (mptt) *)

Stored == DOMAIN pages

RECURSIVE Preorder(_, _)
Preorder(ch, ids) ==
    IF ids = <<>> THEN <<>>
    ELSE <<Head(ids)>> \o Preorder(ch, ch[Head(ids)]) \o Preorder(ch, Tail(ids))

\* variant: the descendants in descending tree order
get_descendants_descending(ch, p) ==
    LET s == Preorder(ch, ch[p])
    IN [i \in 1..Len(s) |-> s[Len(s) + 1 - i]]

\* self.get_descendants().order_by('lft')
get_descendants(ch, p) == Preorder(ch, ch[p])

\* Page.objects.all() in Meta.ordering = ['tree_id', 'lft']
AllPagesOrdered(ch) == Preorder(ch, ch[0])


\* the ancestors of p, nearest first, following the parent column
RECURSIVE get_ancestors(_, _)
get_ancestors(pgs, p) ==
    IF pgs[p].parent = 0 THEN <<>>
    ELSE <<pgs[p].parent>> \o get_ancestors(pgs, pgs[p].parent)

-----------------------------------------------------------------------------
(* Cache facade: a process-wide key-value store.  A key is                 *)
(* <<template, page id, content type, frozen flag>>; templates that take   *)
(* only the id carry "" and 0 in the last two places.                      *)

CacheKey(kind, id, ctype, frozen) == <<kind, id, ctype, frozen>>

cache_delete(c, keys) == [k \in (DOMAIN c) \ keys |-> c[k]]

cache_set(c, key, value) == [k \in (DOMAIN c) \cup {key} |-> IF k = key THEN value ELSE c[k]]

\* get_placeholders(self.get_template()) plus 'slug' and 'title'
PlaceholderNames == {"body", "slug", "title"}

\* the keys Page.invalidate deletes for one page
InvalidateKeysOf(id) ==
    {CacheKey("page_%d_languages", id, "", 0),
     CacheKey("PAGE_FIRST_ROOT_ID", 0, "", 0),
     CacheKey("children_%d", id, "", 0),
     CacheKey("pub_children_%d", id, "", 0),
     CacheKey("page_%d_url", id, "", 0)}
    \cup {CacheKey("page_content_dict_%d_%s_%d", id, name, f) :
              name \in PlaceholderNames, f \in {0, 1}}

\* Page.invalidate: the page's own keys, then self.parent.invalidate()
invalidate(c, pgs, id) ==
    cache_delete(c, UNION {InvalidateKeysOf(q) :
                               q \in {id} \cup SeqToSet(get_ancestors(pgs, id))})

-----------------------------------------------------------------------------
(* Page.save *)

\* Page.build_complete_slug; parentSlug is parent.complete_slug, hasParent
\* is the truth value of "parent"
build_complete_slug(hasParent, parentSlug, slug) ==
    IF ~hasParent THEN slug ELSE parentSlug \o "/" \o slug

\* build_complete_slug(page.parent, page.slug) with the parent row read
\* from the page table
BaseSlug(pgs, parent, slug) ==
    build_complete_slug(parent # 0, IF parent # 0 THEN pgs[parent].complete_slug ELSE "", slug)

\* Page.objects.from_complete_slug(cs).exclude(id=id).exists()
from_complete_slug_exists(pgs, cs, id) ==
    \E q \in DOMAIN pgs : q # id /\ pgs[q].complete_slug = cs

\* variant: the count starts at two
FirstNextTwo == 1 + 1

\* the first value of "next" (line 181)
FirstNext == 1

\* variant: the suffix does not use the counter
CandidateFixed(base, next) == base \o "-" \o ToString(1)

\* the replacement tried when the count is next (line 184)
Candidate(base, next) == base \o "-" \o ToString(next)

\* the while loop of lines 183-185: cs is self.complete_slug, next the
\* counter; yields both when the loop exits
\* variant: the counter is incremented before it is used
RECURSIVE CollisionLoopIncrementFirst(_, _, _, _, _)
CollisionLoopIncrementFirst(pgs, id, base, cs, next) ==
    IF from_complete_slug_exists(pgs, cs, id)
    THEN CollisionLoopIncrementFirst(pgs, id, base, Candidate(base, next + 1), next + 1)
    ELSE [complete_slug |-> cs, next |-> next]

RECURSIVE CollisionLoop(_, _, _, _, _)
CollisionLoop(pgs, id, base, cs, next) ==
    IF from_complete_slug_exists(pgs, cs, id)
    THEN CollisionLoop(pgs, id, base, Candidate(base, next), next + 1)
    ELSE [complete_slug |-> cs, next |-> next]

\* page.override_url is set to None by __init__ and never assigned
override_url(page) == ""

\* variant: each descendant is written with the modification stamp of the
\* save that started the pass
RECURSIVE CascadeStamping(_, _)
CascadeStamping(pgs, order) ==
    IF order = <<>> THEN pgs
    ELSE LET d  == Head(order)
             cs == BaseSlug(pgs, pgs[d].parent, pgs[d].slug)
         IN CascadeStamping([pgs EXCEPT ![d].complete_slug = cs,
                                        ![d].last_modification_date = now],
                            Tail(order))

\* one pass of the for loop of lines 198-204 over the descendants, each
\* row written before the next is computed
RECURSIVE Cascade(_, _)
Cascade(pgs, order) ==
    IF order = <<>> THEN pgs
    ELSE LET d  == Head(order)
             cs == IF override_url(pgs[d]) # ""
                   THEN override_url(pgs[d])
                   ELSE BaseSlug(pgs, pgs[d].parent, pgs[d].slug)
         IN Cascade([pgs EXCEPT ![d].complete_slug = cs], Tail(order))

\* whether lines 193-194 return before the cascade
CascadeSkipped(newSlug, original) == newSlug = original

\* Page status constants (lines 57-60)
DRAFT == 0

PUBLISHED == 1

EXPIRED == 2

HIDDEN == 3

\* the flags of pages.settings read by the code below; `settings` holds the
\* configuration of the running site and never changes
SettingsValues ==
    [PAGE_SHOW_START_DATE : BOOLEAN, PAGE_SHOW_END_DATE : BOOLEAN]

\* a site that enforces both dates
EnforcingSettings ==
    [PAGE_SHOW_START_DATE |-> TRUE, PAGE_SHOW_END_DATE |-> TRUE]

\* a date column holding NULL
NoDate == 0

\* variant: the publication date is left as given
SaveDatesKeep(inst, t) == [inst EXCEPT !.last_modification_date = t]

\* variant: a draft always loses its publication date
SaveDatesClearDraft(inst, t) ==
    [inst EXCEPT !.publication_date =
                     IF inst.status = DRAFT THEN NoDate
                     ELSE IF inst.publication_date = NoDate /\ inst.status = PUBLISHED
                     THEN t ELSE inst.publication_date,
                 !.last_modification_date = t]

\* lines 161-174: the publication date rules and the modification stamp
SaveDates(inst, t) ==
    LET pub1 == IF inst.publication_date = NoDate /\ inst.status = PUBLISHED
                THEN t ELSE inst.publication_date
        pub2 == IF inst.status = DRAFT
                THEN IF settings.PAGE_SHOW_START_DATE
                     THEN IF pub1 # NoDate /\ pub1 <= t THEN NoDate ELSE pub1
                     ELSE NoDate
                ELSE pub1
    IN [inst EXCEPT !.publication_date = pub2, !.last_modification_date = t]

\* Page.save of the instance `inst` (a row) with primary key id, whose
\* _original_complete_slug is `original`, at time t; pgs and ch are the
\* tables with the instance's tree position already in place
save(pgs, ch, id, inst, original, t) ==
    LET base == BaseSlug(pgs, inst.parent, inst.slug)
        loop == CollisionLoop(pgs, id, base, base, FirstNext)
        row  == [SaveDates(inst, t) EXCEPT !.complete_slug = loop.complete_slug]
        pgs1 == [q \in (DOMAIN pgs) \cup {id} |-> IF q = id THEN row ELSE pgs[q]]
    IN [pages |-> IF CascadeSkipped(loop.complete_slug, original)
                  THEN pgs1
                  ELSE Cascade(pgs1, get_descendants(ch, id)),
        base |-> base,
        next |-> loop.next]

-----------------------------------------------------------------------------
(* Operations on the page tree *)

\* Page(parent=..., slug=...): the field defaults of a new instance
NewPage(parent, slug) ==
    [parent |-> parent, slug |-> slug, complete_slug |-> "",
     status |-> DRAFT, publication_date |-> NoDate,
     publication_end_date |-> NoDate, freeze_date |-> NoDate,
     last_modification_date |-> NoDate]

\* the primary key the database gives the next row
NewId == Cardinality(Stored) + 1

\* what the last call was and how it ended (history, for the properties):
\* the operation, its page, its target, its result; for a save the path it
\* computed first and the final count; for a content call the language,
\* type and body given, the string or the version (by creation date)
\* returned, whether a version was created, whether language fallback was
\* asked for, and the bodies of the calls of create_content_if_changed
\* made in a row for this key
NoOutcome ==
    [op |-> "none", id |-> 0, target |-> 0, result |-> "ok", base |-> "",
     next |-> 0, language |-> "", ctype |-> "", body |-> "", value |-> "",
     created |-> FALSE, stamp |-> 0, fallback |-> FALSE,
     bodies |-> <<>>, given |-> <<>>, answer |-> FALSE]

Outcome(op, id, target, result, base, next) ==
    [NoOutcome EXCEPT !.op = op, !.id = id, !.target = target,
                      !.result = result, !.base = base, !.next = next]

\* Page(parent=parent, slug=slug).save(): mptt inserts a new node as the
\* last child of its parent (as the last root when it has none)
CreatePage(parent, slug) ==
    /\ NewId \in Ids
    /\ parent \in {0} \cup Stored
    /\ LET id  == NewId
           ch1 == [k \in (DOMAIN children) |->
                       IF k = parent THEN Append(children[k], id) ELSE children[k]]
           r   == save(pages, ch1, id, NewPage(parent, slug), "", now)
       IN /\ pages' = r.pages
          /\ children' = ch1
          /\ last' = Outcome("create", id, parent, "ok", r.base, r.next)
    /\ UNCHANGED <<held, calls, settings, aliases, contents, cache, now, proc>>

\* page = Page.objects.get(id=p); page.slug = slug; page.save()
ChangeSlug(p, slug) ==
    /\ p \in Stored
    /\ LET r == save(pages, children, p, [pages[p] EXCEPT !.slug = slug],
                     pages[p].complete_slug, now)
       IN /\ pages' = r.pages
          /\ last' = Outcome("save", p, 0, "ok", r.base, r.next)
    /\ UNCHANGED <<held, calls, settings, aliases, children, contents, cache, now, proc>>

\* mptt rejects a move that would make a node a child or sibling of itself
\* or of one of its descendants (InvalidMove)
InvalidMove(ch, p, target) == target = p \/ target \in SeqToSet(get_descendants(ch, p))

\* variant: the exception is swallowed and self.save() still runs
AfterInvalidMoveSaves(pgs, ch, p, t) ==
    save(pgs, ch, p, pgs[p], pgs[p].complete_slug, t).pages

\* the page table after line 263 raised InvalidMove: the exception leaves
\* move_to, line 264 (self.save()) is not reached
AfterInvalidMove(pgs, ch, p, t) == pgs

\* the parent mptt gives the moved node
NewParent(pgs, target, position) ==
    IF position \in {"first-child", "last-child"} THEN target ELSE pgs[target].parent

\* the child lists after mptt moved p to `position` relative to target
MoveNode(pgs, ch, p, target, position) ==
    LET np   == NewParent(pgs, target, position)
        out  == [k \in DOMAIN ch |-> RemoveFrom(ch[k], p)]
        sibs == out[np]
        at   == CASE position = "first-child" -> 1
                  [] position = "last-child"  -> Len(sibs) + 1
                  [] position = "left"        -> IndexOf(sibs, target)
                  [] position = "right"       -> IndexOf(sibs, target) + 1
    IN [out EXCEPT ![np] = InsertAt(sibs, at, p)]

\* Page.move_to(target, position) on freshly loaded instances
MoveTo(p, target, position) ==
    /\ p \in Stored /\ target \in Stored
    /\ cache' = invalidate(invalidate(cache, pages, p), pages, target)
    /\ IF InvalidMove(children, p, target)
       THEN /\ last' = Outcome("move_to", p, target, "InvalidMove", "", 0)
            /\ pages' = AfterInvalidMove(pages, children, p, now)
            /\ UNCHANGED children
       ELSE LET np   == NewParent(pages, target, position)
                ch1  == MoveNode(pages, children, p, target, position)
                pgs1 == [pages EXCEPT ![p].parent = np]
                r    == save(pgs1, ch1, p, pgs1[p], pages[p].complete_slug, now)
            IN /\ pages' = r.pages
               /\ children' = ch1
               /\ last' = Outcome("move_to", p, target, "ok", r.base, r.next)
    /\ UNCHANGED <<held, calls, settings, aliases, contents, now, proc>>

\* variant: only the direct children are excluded
valid_targets_children_only(pgs, ch, p) ==
    (DOMAIN pgs) \ ({p} \cup SeqToSet(ch[p]))

\* Page.valid_targets: every page but self and self.get_descendants()
valid_targets(pgs, ch, p) ==
    LET exclude_list == {p} \cup SeqToSet(get_descendants(ch, p))
    IN (DOMAIN pgs) \ exclude_list

-----------------------------------------------------------------------------
(* Specification of the page tree *)

\* the running call of Page.save: where it is (pc), the instance (id, inst,
\* original = _original_complete_slug), the locals of lines 181-185 (base,
\* next; self.complete_slug is inst.complete_slug), whether the row is new,
\* and the descendants still to be visited (queue)
Running(pc, op, id, target, inst, original, base, next, new, queue) ==
    [pc |-> pc, op |-> op, id |-> id, target |-> target, inst |-> inst,
     original |-> original, base |-> base, next |-> next, new |-> new,
     queue |-> queue]

IdleProc == Running("idle", "none", 0, 0, NewPage(0, ""), "", "", 0, FALSE, <<>>)

\* the page object a caller keeps in memory: the primary key, the fields
\* and _original_complete_slug as set by Page.__init__
Holding(id, inst, original) == [id |-> id, inst |-> inst, original |-> original]

\* no page object is kept
NoHeld == Holding(0, NewPage(0, ""), "")

\* the processes that may run Page.save at the same time
Workers == {1, 2}

\* no call of Page.save is running in any process
NoCalls == [w \in Workers |-> IdleProc]

Init ==
    /\ pages = <<>>
    /\ children = [k \in {0} \cup Ids |-> <<>>]
    /\ contents = {}
    /\ cache = <<>>
    /\ now = 1
    /\ last = NoOutcome
    /\ proc = IdleProc
    /\ settings = EnforcingSettings
    /\ calls = NoCalls
    /\ held = NoHeld
    /\ aliases = {}

Next ==
    \/ \E parent \in {0} \cup Ids, slug \in Slugs : CreatePage(parent, slug)
    \/ \E p \in Ids, slug \in Slugs : ChangeSlug(p, slug)
    \/ \E p \in Ids, target \in Ids, position \in Positions : MoveTo(p, target, position)

Spec == Init /\ [][Next]_vars


-----------------------------------------------------------------------------
(* Page.save statement by statement: lines 161-182 (Begin...), one turn of *)
(* the while loop (LoopIterate), its exit with super().save() and the test *)
(* of lines 193-194 (LoopExit), one turn of the for loop (CascadeStep).    *)

\* lines 161-182 for the instance inst of page id
EnterSave(op, id, target, inst, original, new, pgs) ==
    LET base == BaseSlug(pgs, inst.parent, inst.slug)
    IN Running("loop", op, id, target,
               [SaveDates(inst, now) EXCEPT !.complete_slug = base],
               original, base, FirstNext, new, <<>>)

BeginCreate(parent, slug) ==
    /\ proc.pc = "idle"
    /\ NewId \in Ids
    /\ parent \in {0} \cup Stored
    /\ proc' = EnterSave("create", NewId, parent, NewPage(parent, slug), "", TRUE, pages)
    /\ UNCHANGED <<held, calls, settings, aliases, pages, children, contents, cache, now, last>>

BeginSave(p, slug) ==
    /\ proc.pc = "idle"
    /\ p \in Stored
    /\ proc' = EnterSave("save", p, 0, [pages[p] EXCEPT !.slug = slug],
                         pages[p].complete_slug, FALSE, pages)
    /\ UNCHANGED <<held, calls, settings, aliases, pages, children, contents, cache, now, last>>

\* lines 261-263, then the first lines of the save of line 264
BeginMove(p, target, position) ==
    /\ proc.pc = "idle"
    /\ p \in Stored /\ target \in Stored
    /\ cache' = invalidate(invalidate(cache, pages, p), pages, target)
    /\ IF InvalidMove(children, p, target)
       THEN /\ last' = Outcome("move_to", p, target, "InvalidMove", "", 0)
            /\ pages' = AfterInvalidMove(pages, children, p, now)
            /\ UNCHANGED <<children, proc>>
       ELSE LET np   == NewParent(pages, target, position)
                pgs1 == [pages EXCEPT ![p].parent = np]
            IN /\ pages' = pgs1
               /\ children' = MoveNode(pages, children, p, target, position)
               /\ proc' = EnterSave("move_to", p, target, pgs1[p],
                                    pages[p].complete_slug, FALSE, pgs1)
               /\ UNCHANGED last
    /\ UNCHANGED <<held, calls, settings, aliases, contents, now>>

\* lines 183-185, the test true
LoopIterate ==
    /\ proc.pc = "loop"
    /\ from_complete_slug_exists(pages, proc.inst.complete_slug, proc.id)
    /\ proc' = [proc EXCEPT !.inst.complete_slug = Candidate(proc.base, proc.next),
                            !.next = proc.next + 1]
    /\ UNCHANGED <<held, calls, settings, aliases, pages, children, contents, cache, now, last>>

\* line 183, the test false; line 187; lines 193-196
LoopExit ==
    /\ proc.pc = "loop"
    /\ ~from_complete_slug_exists(pages, proc.inst.complete_slug, proc.id)
    /\ pages' = [q \in Stored \cup {proc.id} |->
                     IF q = proc.id THEN proc.inst ELSE pages[q]]
    /\ children' = IF proc.new
                   THEN [children EXCEPT ![proc.inst.parent] = Append(@, proc.id)]
                   ELSE children
    /\ IF CascadeSkipped(proc.inst.complete_slug, proc.original)
       THEN /\ proc' = IdleProc
            /\ last' = Outcome(proc.op, proc.id, proc.target, "ok", proc.base, proc.next)
       ELSE /\ proc' = [proc EXCEPT !.pc = "cascade",
                                    !.queue = get_descendants(children', proc.id)]
            /\ UNCHANGED last
    /\ UNCHANGED <<held, calls, settings, aliases, contents, cache, now>>

\* lines 198-204, one descendant; the return when none is left
CascadeStep ==
    /\ proc.pc = "cascade"
    /\ IF proc.queue = <<>>
       THEN /\ proc' = IdleProc
            /\ last' = Outcome(proc.op, proc.id, proc.target, "ok", proc.base, proc.next)
            /\ UNCHANGED pages
       ELSE /\ pages' = Cascade(pages, <<Head(proc.queue)>>)
            /\ proc' = [proc EXCEPT !.queue = Tail(proc.queue)]
            /\ UNCHANGED last
    /\ UNCHANGED <<held, calls, settings, aliases, children, contents, cache, now>>

SaveStep == LoopIterate \/ LoopExit \/ CascadeStep

NextSteps ==
    \/ \E parent \in {0} \cup Ids, slug \in Slugs : BeginCreate(parent, slug)
    \/ \E p \in Ids, slug \in Slugs : BeginSave(p, slug)
    \/ \E p \in Ids, target \in Ids, position \in Positions : BeginMove(p, target, position)
    \/ LoopIterate
    \/ LoopExit
    \/ CascadeStep

\* a call that has started runs to its end: there is no scheduler that
\* could suspend it
SpecSteps == Init /\ [][NextSteps]_vars /\ WF_vars(SaveStep)

-----------------------------------------------------------------------------
(* Page.save run by several processes at once. Each process holds its own *)
(* instance and its own locals; the page table is shared and every query   *)
(* and every row write of lines 183-204 is a statement of its own: the     *)
(* method opens no transaction and takes no lock.                          *)

\* the largest page table the processes share
MaxShared == 2

\* the rows the running calls of the other processes will still insert
PendingInserts(w) ==
    Cardinality({v \in Workers \ {w} : calls[v].pc \in {"loop", "store"} /\ calls[v].new})

\* a process is between two calls
Returned(w) == calls[w].pc \in {"idle", "done"}

\* Page(parent=parent, slug=slug).save() up to line 182; the row has no
\* primary key before the INSERT of line 187
CallCreate(w, parent, slug) ==
    /\ Returned(w)
    /\ Cardinality(Stored) + PendingInserts(w) < MaxShared
    /\ parent \in {0} \cup Stored
    /\ calls' = [calls EXCEPT ![w] =
                     EnterSave("create", 0, parent, NewPage(parent, slug), "", TRUE, pages)]
    /\ UNCHANGED <<held, settings, aliases, pages, children, contents, cache, now, last, proc>>

\* page = Page.objects.get(id=p); page.slug = slug; page.save() up to line 182
CallSave(w, p, slug) ==
    /\ Returned(w)
    /\ p \in Stored
    /\ calls' = [calls EXCEPT ![w] =
                     EnterSave("save", p, 0, [pages[p] EXCEPT !.slug = slug],
                               pages[p].complete_slug, FALSE, pages)]
    /\ UNCHANGED <<held, settings, aliases, pages, children, contents, cache, now, last, proc>>

\* lines 183-185 in process w, the test true
CallLoopIterate(w) ==
    /\ calls[w].pc = "loop"
    /\ from_complete_slug_exists(pages, calls[w].inst.complete_slug, calls[w].id)
    /\ calls' = [calls EXCEPT ![w].inst.complete_slug =
                                  Candidate(calls[w].base, calls[w].next),
                              ![w].next = calls[w].next + 1]
    /\ UNCHANGED <<held, settings, aliases, pages, children, contents, cache, now, last, proc>>

\* the call of process w has returned: its locals are gone, the instance
\* it saved (with primary key id) is what the caller still holds
ReturnedCall(c, id) ==
    Running("done", "none", id, 0, c.inst, "", "", 0, FALSE, <<>>)

\* line 183 in process w, the test false: the loop is left
CallLoopExit(w) ==
    /\ calls[w].pc = "loop"
    /\ ~from_complete_slug_exists(pages, calls[w].inst.complete_slug, calls[w].id)
    /\ calls' = [calls EXCEPT ![w].pc = "store"]
    /\ UNCHANGED <<held, settings, aliases, pages, children, contents, cache, now, last, proc>>

\* line 187 in process w, the row is written; lines 193-196
CallStore(w) ==
    /\ calls[w].pc = "store"
    /\ LET id == IF calls[w].new THEN NewId ELSE calls[w].id
       IN /\ pages' = [q \in Stored \cup {id} |->
                           IF q = id THEN calls[w].inst ELSE pages[q]]
          /\ children' = IF calls[w].new
                         THEN [children EXCEPT ![calls[w].inst.parent] = Append(@, id)]
                         ELSE children
          /\ calls' = [calls EXCEPT ![w] =
                 IF CascadeSkipped(calls[w].inst.complete_slug, calls[w].original)
                 THEN ReturnedCall(calls[w], id)
                 ELSE [calls[w] EXCEPT !.id = id, !.pc = "cascade",
                                       !.queue = get_descendants(children', id)]]
    /\ UNCHANGED <<held, settings, aliases, contents, cache, now, last, proc>>

\* lines 198-204 in process w, one descendant; the return when none is left
CallCascadeStep(w) ==
    /\ calls[w].pc = "cascade"
    /\ IF calls[w].queue = <<>>
       THEN /\ calls' = [calls EXCEPT ![w] = ReturnedCall(calls[w], calls[w].id)]
            /\ UNCHANGED pages
       ELSE /\ pages' = Cascade(pages, <<Head(calls[w].queue)>>)
            /\ calls' = [calls EXCEPT ![w].queue = Tail(calls[w].queue)]
    /\ UNCHANGED <<held, settings, aliases, children, contents, cache, now, last, proc>>

NextCalls ==
    \/ \E w \in Workers, parent \in {0} \cup Ids, slug \in Slugs : CallCreate(w, parent, slug)
    \/ \E w \in Workers, p \in Ids, slug \in Slugs : CallSave(w, p, slug)
    \/ \E w \in Workers : CallLoopIterate(w)
    \/ \E w \in Workers : CallLoopExit(w)
    \/ \E w \in Workers : CallStore(w)
    \/ \E w \in Workers : CallCascadeStep(w)

SpecCalls == Init /\ [][NextCalls]_vars

-----------------------------------------------------------------------------
(* Content store: `contents` is the Content table, a set of rows.  The     *)
(* clock (`now`, get_now()) moves on with every row created, so no two     *)
(* rows carry the same creation_date.                                      *)

\* settings.PAGE_LANGUAGES, in order
Languages == <<"en", "fr">>

\* the content types of the template's placeholders
ContentTypes == {"body"}

Bodies == {"v" \o ToString(i) : i \in 1..(RevisionDepth + 1)}

\* self.filter(page=page, language=language, type=ctype)
VersionsOf(cs, page, language, ctype) ==
    {c \in cs : c.page = page /\ c.language = language /\ c.type = ctype}

\* .latest('creation_date') of a non-empty set of rows
Latest(rows) ==
    CHOOSE c \in rows : \A d \in rows : d.creation_date <= c.creation_date

NewContent(page, language, ctype, body, t) ==
    [page |-> page, language |-> language, type |-> ctype, body |-> body,
     creation_date |-> t]

\* variant: the slice keeps one row more than the depth
OldestContentOffByOne(rows) ==
    {c \in rows :
        Cardinality({d \in rows : d.creation_date > c.creation_date}) > RevisionDepth}

\* order_by('-creation_date')[PAGE_CONTENT_REVISION_DEPTH:] (lines 160-161)
OldestContent(rows) ==
    {c \in rows :
        Cardinality({d \in rows : d.creation_date > c.creation_date}) >= RevisionDepth}

\* variant: the comparison with the latest body is missing
create_content_always(cs, page, language, ctype, body, t) ==
    LET new == NewContent(page, language, ctype, body, t)
        cs1 == cs \cup {new}
    IN [contents |-> IF RevisionDepth # 0
                     THEN cs1 \ OldestContent(VersionsOf(cs1, page, language, ctype))
                     ELSE cs1,
        created |-> TRUE, stamp |-> t]

\* variant: the rows to delete are sliced from the whole table
create_content_unscoped(cs, page, language, ctype, body, t) ==
    LET rows == VersionsOf(cs, page, language, ctype)
        new  == NewContent(page, language, ctype, body, t)
        cs1  == cs \cup {new}
    IN IF rows # {} /\ Latest(rows).body = body
       THEN [contents |-> cs, created |-> FALSE, stamp |-> Latest(rows).creation_date]
       ELSE [contents |-> IF RevisionDepth # 0 THEN cs1 \ OldestContent(cs1) ELSE cs1,
             created |-> TRUE, stamp |-> t]

\* ContentManager.create_content_if_changed at time t: the table after the
\* call, whether a row was created, and the creation date of the row
\* returned
create_content_if_changed(cs, page, language, ctype, body, t) ==
    LET rows == VersionsOf(cs, page, language, ctype)
        new  == NewContent(page, language, ctype, body, t)
        cs1  == cs \cup {new}
    IN IF rows # {} /\ Latest(rows).body = body
       THEN [contents |-> cs, created |-> FALSE, stamp |-> Latest(rows).creation_date]
       ELSE [contents |-> IF RevisionDepth # 0
                          THEN cs1 \ OldestContent(VersionsOf(cs1, page, language, ctype))
                          ELSE cs1,
             created |-> TRUE, stamp |-> t]

\* variant: the body of the oldest version is replaced
set_or_create_content_oldest(cs, page, language, ctype, body, t) ==
    LET rows   == VersionsOf(cs, page, language, ctype)
        oldest == CHOOSE c \in rows : \A d \in rows : c.creation_date <= d.creation_date
    IN IF rows # {}
       THEN [contents |-> (cs \ {oldest}) \cup {[oldest EXCEPT !.body = body]},
             created |-> FALSE, stamp |-> oldest.creation_date]
       ELSE [contents |-> cs \cup {NewContent(page, language, ctype, body, t)},
             created |-> TRUE, stamp |-> t]

\* ContentManager.set_or_create_content at time t
set_or_create_content(cs, page, language, ctype, body, t) ==
    LET rows == VersionsOf(cs, page, language, ctype)
    IN IF rows # {}
       THEN [contents |-> (cs \ {Latest(rows)}) \cup {[Latest(rows) EXCEPT !.body = body]},
             created |-> FALSE, stamp |-> Latest(rows).creation_date]
       ELSE [contents |-> cs \cup {NewContent(page, language, ctype, body, t)},
             created |-> TRUE, stamp |-> t]

\* ContentManager.get_content_object: found is FALSE for DoesNotExist
get_content_object(cs, pgs, page, language, ctype) ==
    LET rows == {c \in VersionsOf(cs, page, language, ctype) :
                    pgs[page].freeze_date # NoDate =>
                        c.creation_date <= pgs[page].freeze_date}
    IN IF rows = {} THEN [found |-> FALSE, body |-> ""]
       ELSE [found |-> TRUE, body |-> Latest(rows).body]

\* the first language of the list, from position i on, with a body in d
RECURSIVE FirstBody(_, _)
FirstBody(d, i) ==
    IF i > Len(Languages) THEN ""
    ELSE IF Languages[i] \in DOMAIN d /\ d[Languages[i]] # "" THEN d[Languages[i]]
    ELSE FirstBody(d, i + 1)

\* the characters of the content types used here
Chars(ctype) ==
    CASE ctype = "body"     -> <<"b", "o", "d", "y">>
      [] ctype = "slug"     -> <<"s", "l", "u", "g">>
      [] ctype = "title"    -> <<"t", "i", "t", "l", "e">>
      [] ctype = "side bar" -> <<"s", "i", "d", "e", " ", "b", "a", "r">>

\* " " in ctype (line 188)
HasSpace(ctype) == \E i \in 1..Len(Chars(ctype)) : Chars(ctype)[i] = " "

\* what "return page.title" of line 194 hands back: the bound method, not
\* a string
BoundMethodTitle == "<bound method Page.title>"

\* variant: the content type is not examined, every type is read from the
\* Content table through the cache
get_content_unchecked(c, cs, pgs, page, language, ctype, language_fallback) ==
    LET frozen == IF pgs[page].freeze_date # NoDate THEN 1 ELSE 0
        key    == CacheKey("page_content_dict_%d_%s_%d", page, ctype, frozen)
        hit    == key \in DOMAIN c
        built  == [l \in SeqToSet(Languages) |->
                      LET o == get_content_object(cs, pgs, page, l, ctype)
                      IN IF o.found THEN o.body ELSE ""]
        content_dict == IF hit THEN c[key] ELSE built
    IN [raised |-> FALSE,
        cache |-> IF hit THEN c ELSE cache_set(c, key, built),
        value |-> IF language \in DOMAIN content_dict /\ content_dict[language] # ""
                  THEN content_dict[language]
                  ELSE IF language_fallback THEN FirstBody(content_dict, 1)
                  ELSE ""]

\* ContentManager.get_content (lines 179-233) for a page instance just
\* loaded (its _content_dict is None): whether ValueError was raised, the
\* value returned and the cache after the call
get_content(c, cs, pgs, page, language, ctype, language_fallback) ==
    LET frozen == IF pgs[page].freeze_date # NoDate THEN 1 ELSE 0
        key    == CacheKey("page_content_dict_%d_%s_%d", page, ctype, frozen)
        hit    == key \in DOMAIN c
        built  == [l \in SeqToSet(Languages) |->
                      LET o == get_content_object(cs, pgs, page, l, ctype)
                      IN IF o.found THEN o.body ELSE ""]
        content_dict == IF hit THEN c[key] ELSE built
    IN IF HasSpace(ctype) THEN [raised |-> TRUE, cache |-> c, value |-> ""]
       ELSE IF ctype = "title"
       THEN [raised |-> FALSE, cache |-> c, value |-> BoundMethodTitle]
       ELSE IF ctype = "slug"
       THEN [raised |-> FALSE, cache |-> c, value |-> pgs[page].slug]
       ELSE [raised |-> FALSE,
             cache |-> IF hit THEN c ELSE cache_set(c, key, built),
             value |-> IF language \in DOMAIN content_dict /\ content_dict[language] # ""
                       THEN content_dict[language]
                       ELSE IF language_fallback THEN FirstBody(content_dict, 1)
                       ELSE ""]

\* variant: the slug is looked up in the Content table like any other type
page_get_content_stored(c, cs, pgs, page, language, ctype, language_fallback) ==
    get_content_unchecked(c, cs, pgs, page, language, ctype, language_fallback)

\* Page.get_content (lines 385-398)
page_get_content(c, cs, pgs, page, language, ctype, language_fallback) ==
    IF ctype = "slug"
    THEN [raised |-> FALSE, cache |-> c, value |-> pgs[page].slug]
    ELSE get_content(c, cs, pgs, page, language, ctype, language_fallback)

-----------------------------------------------------------------------------
(* Operations on the content store *)

ContentOutcome(op, page, language, ctype, body, value, created, stamp) ==
    [NoOutcome EXCEPT !.op = op, !.id = page, !.language = language,
                      !.ctype = ctype, !.body = body, !.value = value,
                      !.created = created, !.stamp = stamp]

\* the bodies given to create_content_if_changed in a row for one key,
\* the last RevisionDepth + 1 of them
Streak(page, language, ctype, body) ==
    LET all == IF /\ last.op = "create_content_if_changed"
                  /\ last.id = page /\ last.language = language /\ last.ctype = ctype
               THEN Append(last.bodies, body)
               ELSE <<body>>
    IN IF Len(all) > RevisionDepth + 1 THEN Tail(all) ELSE all

CreateContentIfChanged(page, language, ctype, body) ==
    /\ page \in Stored
    /\ now <= MaxTime
    /\ LET r == create_content_if_changed(contents, page, language, ctype, body, now)
       IN /\ contents' = r.contents
          /\ now' = IF r.created THEN now + 1 ELSE now
          /\ last' = [ContentOutcome("create_content_if_changed", page, language,
                                     ctype, body, "", r.created, r.stamp)
                         EXCEPT !.bodies = Streak(page, language, ctype, body)]
    /\ UNCHANGED <<held, calls, settings, aliases, pages, children, cache, proc>>

SetOrCreateContent(page, language, ctype, body) ==
    /\ page \in Stored
    /\ now <= MaxTime
    /\ LET r == set_or_create_content(contents, page, language, ctype, body, now)
       IN /\ contents' = r.contents
          /\ now' = IF r.created THEN now + 1 ELSE now
          /\ last' = ContentOutcome("set_or_create_content", page, language,
                                    ctype, body, "", r.created, r.stamp)
    /\ UNCHANGED <<held, calls, settings, aliases, pages, children, cache, proc>>

\* page = Page.objects.get(id=page); page.get_content(language, ctype, fallback)
GetContent(page, language, ctype, language_fallback) ==
    /\ page \in Stored
    /\ LET r == page_get_content(cache, contents, pages, page, language, ctype,
                                 language_fallback)
       IN /\ cache' = r.cache
          /\ last' = [ContentOutcome("get_content", page, language, ctype, "",
                                     r.value, FALSE, 0)
                         EXCEPT !.fallback = language_fallback,
                                !.result = IF r.raised THEN "ValueError" ELSE "ok"]
    /\ UNCHANGED <<held, calls, settings, aliases, pages, children, contents, now, proc>>

\* page = Page.objects.get(id=page); page.freeze_date = date; page.save()
SetFreezeDate(page, date) ==
    /\ page \in Stored
    /\ LET r == save(pages, children, page, [pages[page] EXCEPT !.freeze_date = date],
                     pages[page].complete_slug, now)
       IN /\ pages' = r.pages
          /\ last' = Outcome("save", page, 0, "ok", r.base, r.next)
    /\ UNCHANGED <<held, calls, settings, aliases, children, contents, cache, now, proc>>

\* Page.objects.get(id=page).invalidate()
Invalidate(page) ==
    /\ page \in Stored
    /\ cache' = invalidate(cache, pages, page)
    /\ last' = Outcome("invalidate", page, 0, "ok", "", 0)
    /\ UNCHANGED <<held, calls, settings, aliases, pages, children, contents, now, proc>>

\* a site with a root page and a child page, no content yet
InitContent ==
    /\ pages = <<[NewPage(0, "a") EXCEPT !.complete_slug = "a",
                                         !.last_modification_date = 1],
                 [NewPage(1, "b") EXCEPT !.complete_slug = "a/b",
                                         !.last_modification_date = 1]>>
    /\ children = [k \in {0} \cup Ids |->
                       IF k = 0 THEN <<1>> ELSE IF k = 1 THEN <<2>> ELSE <<>>]
    /\ contents = {}
    /\ cache = <<>>
    /\ now = 1
    /\ last = NoOutcome
    /\ proc = IdleProc
    /\ settings = EnforcingSettings
    /\ calls = NoCalls
    /\ held = NoHeld
    /\ aliases = {}

\* the content store under writes
NextContent ==
    \/ \E page \in Ids, l \in SeqToSet(Languages), t \in ContentTypes, b \in Bodies :
           CreateContentIfChanged(page, l, t, b)
    \/ \E page \in Ids, l \in SeqToSet(Languages), t \in ContentTypes, b \in Bodies :
           SetOrCreateContent(page, l, t, b)

SpecContent == InitContent /\ [][NextContent]_vars

\* the keys written below: one key, and the keys that differ from it in the
\* page, in the language, in the content type
PruneKeys ==
    <<[page |-> 1, language |-> "en", type |-> "body"],
      [page |-> 2, language |-> "en", type |-> "body"],
      [page |-> 1, language |-> "fr", type |-> "body"],
      [page |-> 1, language |-> "en", type |-> "title"]>>

\* the versions written before the clock of the model starts: for the
\* i-th key, RevisionDepth versions, one per instant, the later keys first
EarlierContent ==
    {NewContent(PruneKeys[i].page, PruneKeys[i].language, PruneKeys[i].type,
                "v" \o ToString(j), j - i * RevisionDepth) :
         i \in 1..Len(PruneKeys), j \in 1..RevisionDepth}

\* a site with two pages whose keys each hold as many versions as are kept
InitPrune ==
    /\ pages = <<[NewPage(0, "a") EXCEPT !.complete_slug = "a",
                                         !.last_modification_date = 1],
                 [NewPage(1, "b") EXCEPT !.complete_slug = "a/b",
                                         !.last_modification_date = 1]>>
    /\ children = [k \in {0} \cup Ids |->
                       IF k = 0 THEN <<1>> ELSE IF k = 1 THEN <<2>> ELSE <<>>]
    /\ contents = EarlierContent
    /\ cache = <<>>
    /\ now = 1
    /\ last = NoOutcome
    /\ proc = IdleProc
    /\ settings = EnforcingSettings
    /\ calls = NoCalls
    /\ held = NoHeld
    /\ aliases = {}

\* versions created for these keys
NextPrune ==
    \E i \in 1..Len(PruneKeys), b \in Bodies :
        CreateContentIfChanged(PruneKeys[i].page, PruneKeys[i].language,
                               PruneKeys[i].type, b)

SpecPrune == InitPrune /\ [][NextPrune]_vars

\* a site with one page, no content yet
InitRead ==
    /\ pages = <<[NewPage(0, "a") EXCEPT !.complete_slug = "a",
                                         !.last_modification_date = 1]>>
    /\ children = [k \in {0} \cup Ids |-> IF k = 0 THEN <<1>> ELSE <<>>]
    /\ contents = {}
    /\ cache = <<>>
    /\ now = 1
    /\ last = NoOutcome
    /\ proc = IdleProc
    /\ settings = EnforcingSettings
    /\ calls = NoCalls
    /\ held = NoHeld
    /\ aliases = {}

ReadBodies == {"v1", "v2"}

\* the content of a page under writes, reads and changes of its freeze date
NextRead ==
    \/ \E page \in Ids, l \in SeqToSet(Languages), t \in ContentTypes, b \in ReadBodies :
           CreateContentIfChanged(page, l, t, b)
    \/ \E page \in Ids, l \in SeqToSet(Languages), t \in ContentTypes, b \in ReadBodies :
           SetOrCreateContent(page, l, t, b)
    \/ \E page \in Ids, l \in SeqToSet(Languages), t \in ContentTypes, f \in BOOLEAN :
           GetContent(page, l, t, f)
    \/ \E page \in Ids, date \in 0..MaxTime : SetFreezeDate(page, date)
    \/ \E page \in Ids : Invalidate(page)

SpecRead == InitRead /\ [][NextRead]_vars

\* the content types a caller may write, and those it may ask for
WriteTypes == ContentTypes \cup {"slug"}

ReadTypes == ContentTypes \cup {"slug", "title", "side bar"}

\* a page saved while content of every type is written and read
NextTypes ==
    \/ \E p \in Ids, slug \in Slugs : ChangeSlug(p, slug)
    \/ \E page \in Ids, l \in SeqToSet(Languages), t \in WriteTypes, b \in ReadBodies :
           SetOrCreateContent(page, l, t, b)
    \/ \E page \in Ids, l \in SeqToSet(Languages), t \in ReadTypes, f \in BOOLEAN :
           GetContent(page, l, t, f)

SpecTypes == InitRead /\ [][NextTypes]_vars

-----------------------------------------------------------------------------
(* Publication status *)

\* the choices of the status field (lines 61-65, 92)
STATUSES == {PUBLISHED, HIDDEN, DRAFT}

\* variant: the end date is examined before the publication date
calculated_status_end_first(page, t, st) ==
    IF st.PAGE_SHOW_END_DATE /\ page.publication_end_date # NoDate
       /\ page.publication_end_date < t
    THEN EXPIRED
    ELSE IF st.PAGE_SHOW_START_DATE /\ page.publication_date # NoDate
            /\ page.publication_date > t
    THEN DRAFT
    ELSE page.status

\* variant: the page is still a draft at its publication date
calculated_status_late(page, t, st) ==
    IF st.PAGE_SHOW_START_DATE /\ page.publication_date # NoDate
       /\ page.publication_date >= t
    THEN DRAFT
    ELSE IF st.PAGE_SHOW_END_DATE /\ page.publication_end_date # NoDate
            /\ page.publication_end_date < t
    THEN EXPIRED
    ELSE page.status

\* Page._get_calculated_status (lines 208-221) at time t = get_now() under
\* the settings st
calculated_status(page, t, st) ==
    IF st.PAGE_SHOW_START_DATE /\ page.publication_date # NoDate
       /\ page.publication_date > t
    THEN DRAFT
    ELSE IF st.PAGE_SHOW_END_DATE /\ page.publication_end_date # NoDate
            /\ page.publication_end_date < t
    THEN EXPIRED
    ELSE page.status

\* Page._visible (lines 224-226)
visible(page, t, st) == calculated_status(page, t, st) \in {PUBLISHED, HIDDEN}

\* page = Page.objects.get(id=p); page.status = status;
\* page.publication_date = pub; page.publication_end_date = end; page.save()
\* `last` keeps the fields given and the time of the save
SavePage(p, status, pub, end) ==
    /\ p \in Stored
    /\ LET inst == [pages[p] EXCEPT !.status = status, !.publication_date = pub,
                                    !.publication_end_date = end]
           r    == save(pages, children, p, inst, pages[p].complete_slug, now)
       IN /\ pages' = r.pages
          /\ last' = [Outcome("save", p, 0, "ok", r.base, r.next)
                         EXCEPT !.stamp = now,
                                !.given = [status |-> status, publication_date |-> pub,
                                           publication_end_date |-> end]]
    /\ UNCHANGED <<held, calls, settings, aliases, children, contents, cache, now, proc>>

\* time passes (get_now() grows)
Tick ==
    /\ now < MaxTime
    /\ now' = now + 1
    /\ UNCHANGED <<held, calls, settings, aliases, pages, children, contents, cache, last, proc>>

\* a site with one draft page, under any configuration of the date flags
InitStatus ==
    /\ pages = <<[NewPage(0, "a") EXCEPT !.complete_slug = "a",
                                         !.last_modification_date = 1]>>
    /\ children = [k \in {0} \cup Ids |-> IF k = 0 THEN <<1>> ELSE <<>>]
    /\ contents = {}
    /\ cache = <<>>
    /\ now = 1
    /\ last = NoOutcome
    /\ proc = IdleProc
    /\ settings \in SettingsValues
    /\ calls = NoCalls
    /\ held = NoHeld
    /\ aliases = {}

NextStatus ==
    \/ \E p \in Ids, status \in STATUSES, pub \in 0..MaxTime, end \in 0..MaxTime :
           SavePage(p, status, pub, end)
    \/ Tick

SpecStatus == InitStatus /\ [][NextStatus]_vars

-----------------------------------------------------------------------------
(* The page lists of the manager *)

\* PageManager.filter_published (managers.py lines 53-70) at time t under the
\* settings st: a comparison with a NULL date selects no row
published(pgs, t, st) ==
    {p \in DOMAIN pgs :
        /\ pgs[p].status = PUBLISHED
        /\ st.PAGE_SHOW_START_DATE =>
               (pgs[p].publication_date # NoDate /\ pgs[p].publication_date <= t)
        /\ st.PAGE_SHOW_END_DATE =>
               (\/ (pgs[p].publication_end_date # NoDate /\ pgs[p].publication_end_date > t)
                \/ pgs[p].publication_end_date = NoDate)}

\* PageManager.navigation (managers.py lines 44-47)
navigation(pgs) ==
    {p \in DOMAIN pgs : pgs[p].status = PUBLISHED /\ pgs[p].parent = 0}

\* Page.objects.published(): `last` keeps the pages listed and the time
Published ==
    /\ last' = [Outcome("published", 0, 0, "ok", "", 0)
                   EXCEPT !.stamp = now, !.given = published(pages, now, settings)]
    /\ UNCHANGED <<held, calls, settings, aliases, pages, children, contents, cache, now, proc>>

\* Page.objects.navigation()
Navigation ==
    /\ last' = [Outcome("navigation", 0, 0, "ok", "", 0)
                   EXCEPT !.stamp = now, !.given = navigation(pages)]
    /\ UNCHANGED <<held, calls, settings, aliases, pages, children, contents, cache, now, proc>>

\* a site with a root page and a child page, both drafts, under any
\* configuration of the date flags
InitLists ==
    /\ pages = <<[NewPage(0, "a") EXCEPT !.complete_slug = "a",
                                         !.last_modification_date = 1],
                 [NewPage(1, "b") EXCEPT !.complete_slug = "a/b",
                                         !.last_modification_date = 1]>>
    /\ children = [k \in {0} \cup Ids |->
                       IF k = 0 THEN <<1>> ELSE IF k = 1 THEN <<2>> ELSE <<>>]
    /\ contents = {}
    /\ cache = <<>>
    /\ now = 1
    /\ last = NoOutcome
    /\ proc = IdleProc
    /\ settings \in SettingsValues
    /\ calls = NoCalls
    /\ held = NoHeld
    /\ aliases = {}

\* the root page saved with any status and dates, the child page with any
\* status and no dates, while time passes and the lists are asked for
NextLists ==
    \/ \E status \in STATUSES, pub \in 0..MaxTime, end \in 0..MaxTime :
           SavePage(1, status, pub, end)
    \/ \E status \in STATUSES : SavePage(2, status, NoDate, NoDate)
    \/ Tick
    \/ Published
    \/ Navigation

SpecLists == InitLists /\ [][NextLists]_vars

-----------------------------------------------------------------------------
(* Saves of pages that carry a status and dates *)

\* a site with a root page, its child page and a second root page
InitFrame ==
    /\ pages = <<[NewPage(0, "a") EXCEPT !.complete_slug = "a",
                                         !.last_modification_date = 1],
                 [NewPage(1, "b") EXCEPT !.complete_slug = "a/b",
                                         !.last_modification_date = 1],
                 [NewPage(0, "b") EXCEPT !.complete_slug = "b",
                                         !.last_modification_date = 1]>>
    /\ children = [k \in {0} \cup Ids |->
                       IF k = 0 THEN <<1, 3>> ELSE IF k = 1 THEN <<2>> ELSE <<>>]
    /\ contents = {}
    /\ cache = <<>>
    /\ now = 1
    /\ last = NoOutcome
    /\ proc = IdleProc
    /\ settings = EnforcingSettings
    /\ calls = NoCalls
    /\ held = NoHeld
    /\ aliases = {}

\* the pages whose slug is changed
Renamed12 == {1, 2}

\* the child page given a status and a freeze date, the root page and the
\* child page given a slug, while time passes
NextFrame ==
    \/ \E status \in STATUSES : SavePage(2, status, NoDate, NoDate)
    \/ \E date \in 0..MaxTime : SetFreezeDate(2, date)
    \/ \E p \in Renamed12, slug \in Slugs : ChangeSlug(p, slug)
    \/ Tick

SpecFrame == InitFrame /\ [][NextFrame]_vars

-----------------------------------------------------------------------------
(* Cached page queries *)

\* Page.objects.root(): the pages without parent, in tree order
root(ch) == ch[0]

\* Page.is_first_root (lines 314-337) on a page instance just loaded (its
\* _is_first_root is None): the answer and the cache after the call
is_first_root(c, pgs, ch, id) ==
    LET parent_cache_key == CacheKey("PARENT_FOR_%d", id, "", 0)
        first_key  == CacheKey("PAGE_FIRST_ROOT_ID", 0, "", 0)
        has_parent == IF parent_cache_key \in DOMAIN c THEN c[parent_cache_key]
                      ELSE pgs[id].parent # 0
        c1 == IF parent_cache_key \in DOMAIN c THEN c
              ELSE cache_set(c, parent_cache_key, has_parent)
    IN IF has_parent THEN [cache |-> c1, value |-> FALSE]
       ELSE IF first_key \in DOMAIN c1
       THEN [cache |-> c1, value |-> c1[first_key] = id]
       ELSE IF root(ch) = <<>>
       THEN [cache |-> c1, value |-> FALSE]
       ELSE [cache |-> cache_set(c1, first_key, root(ch)[1]),
             value |-> id = root(ch)[1]]

\* sorted(set(languages)) of line 309: the languages of the set as a list in
\* ascending order, which is the order of Languages
sorted(langs) == SelectSeq(Languages, LAMBDA l : l \in langs)

\* Page.get_languages (lines 296-312) on a page instance just loaded: the
\* languages (a sorted list without duplicates) and the cache after the call
get_languages(c, cs, id) ==
    LET key       == CacheKey("page_%d_languages", id, "", 0)
        languages == sorted({x.language : x \in {y \in cs : y.page = id}})
    IN IF key \in DOMAIN c
       THEN [cache |-> c, value |-> c[key]]
       ELSE [cache |-> cache_set(c, key, languages), value |-> languages]

\* Page.objects.get(id=page).is_first_root()
IsFirstRoot(page) ==
    /\ page \in Stored
    /\ LET r == is_first_root(cache, pages, children, page)
       IN /\ cache' = r.cache
          /\ last' = [Outcome("is_first_root", page, 0, "ok", "", 0)
                         EXCEPT !.answer = r.value]
    /\ UNCHANGED <<held, calls, settings, aliases, pages, children, contents, now, proc>>

\* Page.objects.get(id=page).get_languages()
GetLanguages(page) ==
    /\ page \in Stored
    /\ LET r == get_languages(cache, contents, page)
       IN /\ cache' = r.cache
          /\ last' = [Outcome("get_languages", page, 0, "ok", "", 0)
                         EXCEPT !.given = r.value]
    /\ UNCHANGED <<held, calls, settings, aliases, pages, children, contents, now, proc>>

\* a site with a chain of three pages: a root, its child and grandchild
InitCache ==
    /\ pages = <<[NewPage(0, "a") EXCEPT !.complete_slug = "a",
                                         !.last_modification_date = 1],
                 [NewPage(1, "b") EXCEPT !.complete_slug = "a/b",
                                         !.last_modification_date = 1],
                 [NewPage(2, "a") EXCEPT !.complete_slug = "a/b/a",
                                         !.last_modification_date = 1]>>
    /\ children = [k \in {0} \cup Ids |->
                       IF k = 0 THEN <<1>> ELSE IF k = 1 THEN <<2>>
                       ELSE IF k = 2 THEN <<3>> ELSE <<>>]
    /\ contents = {}
    /\ cache = <<>>
    /\ now = 1
    /\ last = NoOutcome
    /\ proc = IdleProc
    /\ settings = EnforcingSettings
    /\ calls = NoCalls
    /\ held = NoHeld
    /\ aliases = {}

\* the cached queries of the pages and their invalidation
NextCache ==
    \/ \E page \in Ids : IsFirstRoot(page)
    \/ \E page \in Ids : GetLanguages(page)
    \/ \E page \in Ids, l \in SeqToSet(Languages), t \in ContentTypes, f \in BOOLEAN :
           GetContent(page, l, t, f)
    \/ \E page \in Ids : Invalidate(page)

SpecCache == InitCache /\ [][NextCache]_vars

\* the languages of the pages asked for while content is written
NextLanguages ==
    \/ \E page \in Ids, l \in SeqToSet(Languages), t \in ContentTypes, b \in Bodies :
           CreateContentIfChanged(page, l, t, b)
    \/ \E page \in Ids, l \in SeqToSet(Languages), t \in ContentTypes, b \in Bodies :
           SetOrCreateContent(page, l, t, b)
    \/ \E page \in Ids : GetLanguages(page)

SpecLanguages == InitContent /\ [][NextLanguages]_vars

\* pages created and moved while is_first_root is asked
NextRoot ==
    \/ \E parent \in {0} \cup Ids, slug \in Slugs : CreatePage(parent, slug)
    \/ \E p \in Ids, target \in Ids, position \in Positions : MoveTo(p, target, position)
    \/ \E page \in Ids : IsFirstRoot(page)

SpecRoot == Init /\ [][NextRoot]_vars

-----------------------------------------------------------------------------
(* The cached queries and the move when calls of the cache fail.  The code  *)
(* calls cache.get, cache.set and cache.delete outside any try block, so an *)
(* exception raised by one of them leaves the method at that call.          *)

\* the kinds of cache call
CacheCalls == {"get", "set", "delete"}

\* the kinds that fail while one method runs: none, or one of them
FaultSets == {{}} \cup {{k} : k \in CacheCalls}

\* whether a call of one of the failing kinds is made by a method that
\* reads the cache (gets), writes it (sets) or clears keys (deletes)
CacheRaises(faults, gets, sets, deletes) ==
    \/ "get" \in faults /\ gets
    \/ "set" \in faults /\ sets
    \/ "delete" \in faults /\ deletes

\* the exception of a cache call leaves the method: nothing is written
Interrupted(op, id, target) ==
    /\ id \in Stored
    /\ last' = Outcome(op, id, target, "CacheError", "", 0)
    /\ UNCHANGED <<held, calls, settings, aliases, pages, children, contents, cache, now, proc>>

\* is_first_root: cache.get at line 317, cache.set at lines 320 and 335
FailingIsFirstRoot(page, faults) ==
    /\ page \in Stored
    /\ IF CacheRaises(faults, TRUE,
                      is_first_root(cache, pages, children, page).cache # cache, FALSE)
       THEN Interrupted("is_first_root", page, 0)
       ELSE IsFirstRoot(page)

\* get_languages: cache.get at line 302, cache.set at line 310
FailingGetLanguages(page, faults) ==
    /\ page \in Stored
    /\ IF CacheRaises(faults, TRUE,
                      get_languages(cache, contents, page).cache # cache, FALSE)
       THEN Interrupted("get_languages", page, 0)
       ELSE GetLanguages(page)

\* get_content: cache.get at managers.py line 209, cache.set at line 224;
\* neither is reached for a type with a space, for "title" or for "slug"
FailingGetContent(page, language, ctype, language_fallback, faults) ==
    /\ page \in Stored
    /\ LET reads == ~HasSpace(ctype) /\ ctype \notin {"title", "slug"}
           r     == page_get_content(cache, contents, pages, page, language, ctype,
                                     language_fallback)
       IN IF CacheRaises(faults, reads, r.cache # cache, FALSE)
          THEN Interrupted("get_content", page, 0)
          ELSE GetContent(page, language, ctype, language_fallback)

\* invalidate: cache.delete at line 269
FailingInvalidate(page, faults) ==
    /\ page \in Stored
    /\ IF CacheRaises(faults, FALSE, FALSE, TRUE)
       THEN Interrupted("invalidate", page, 0)
       ELSE Invalidate(page)

\* move_to: self.invalidate() at line 261 comes before the move of line 263
FailingMoveTo(p, target, position, faults) ==
    /\ p \in Stored /\ target \in Stored
    /\ IF CacheRaises(faults, FALSE, FALSE, TRUE)
       THEN Interrupted("move_to", p, target)
       ELSE MoveTo(p, target, position)

NextFaults ==
    \/ \E page \in Ids, faults \in FaultSets : FailingIsFirstRoot(page, faults)
    \/ \E page \in Ids, faults \in FaultSets : FailingGetLanguages(page, faults)
    \/ \E page \in Ids, l \in SeqToSet(Languages), t \in ContentTypes, f \in BOOLEAN,
          faults \in FaultSets : FailingGetContent(page, l, t, f, faults)
    \/ \E page \in Ids, faults \in FaultSets : FailingInvalidate(page, faults)
    \/ \E p \in Ids, target \in Ids, position \in Positions, faults \in FaultSets :
           FailingMoveTo(p, target, position, faults)

SpecFaults == InitContent /\ [][NextFaults]_vars

-----------------------------------------------------------------------------
(* Lookup of a page by its path.  A path is its text between the slashes  *)
(* at both ends (body) and whether it starts (lead) and ends (trail) with *)
(* a slash.                                                               *)

\* the columns of the Page model (models.py lines 74-115) this model keeps
PageFields == DOMAIN NewPage(0, "")

\* complete_path == ''
EmptyPath(path) == ~path.lead /\ path.body = "" /\ ~path.trail

\* complete_path.strip('/')
strip(path) == path.body

\* queryset.get(field=value) on the page table: the error raised for a
\* keyword that is no field of the model, for no row and for several rows,
\* otherwise the row found
QueryGet(pgs, field, value) ==
    IF field \notin PageFields THEN [raised |-> "FieldError", page |-> 0]
    ELSE LET found == {q \in DOMAIN pgs : pgs[q][field] = value}
         IN IF found = {} THEN [raised |-> "DoesNotExist", page |-> 0]
            ELSE IF Cardinality(found) > 1
            THEN [raised |-> "MultipleObjectsReturned", page |-> 0]
            ELSE [raised |-> "", page |-> CHOOSE q \in found : TRUE]

\* the keyword of the lookup of line 106
PathField == "cached_url"

\* PageManager.from_path (managers.py lines 91-108): the page found (0 for
\* None) or the error that leaves the method
page_from_path(pgs, ch, path) ==
    IF EmptyPath(path)
    THEN [raised |-> "", page |-> IF root(ch) # <<>> THEN root(ch)[1] ELSE 0]
    ELSE LET stripped == strip(path)
             r == QueryGet(pgs, PathField,
                           IF stripped # "" THEN "/" \o stripped ELSE "/")
         IN IF r.raised = "DoesNotExist" THEN [raised |-> "", page |-> 0] ELSE r

\* the text of the path asked for: the complete slug of stored page q, the
\* empty text (q = 0) or a text that is no page's complete slug
PathBody(pgs, q) ==
    IF q \in DOMAIN pgs THEN pgs[q].complete_slug
    ELSE IF q = 0 THEN "" ELSE "zz"

\* Page.objects.from_path(path, None) for the path with that text, bare or
\* with a slash at either end
PageFromPath(lead, q, trail) ==
    /\ q \in Stored \cup {0, MaxPages + 1}
    /\ LET path == [lead |-> lead, body |-> PathBody(pages, q), trail |-> trail]
           r    == page_from_path(pages, children, path)
       IN last' = [Outcome("page_from_path", r.page, 0,
                           IF r.raised = "" THEN "ok" ELSE r.raised, "", 0)
                      EXCEPT !.given = <<path>>]
    /\ UNCHANGED <<held, calls, settings, aliases, pages, children, contents, cache, now, proc>>

NextPaths ==
    \/ \E parent \in {0} \cup Ids, slug \in Slugs : CreatePage(parent, slug)
    \/ \E p \in Ids, slug \in Slugs : ChangeSlug(p, slug)
    \/ \E lead \in BOOLEAN, q \in 0..(MaxPages + 1), trail \in BOOLEAN :
           PageFromPath(lead, q, trail)

SpecPaths == Init /\ [][NextPaths]_vars

-----------------------------------------------------------------------------
(* The validation of the slug by the page form of the editing interface,  *)
(* followed by the save of the page when the slug is accepted.            *)

\* unique_slug_required (admin/forms.py lines 39-48): whether ValidationError
\* is raised for the form of the stored page `instance` (0 for the form of
\* a page not saved yet)
unique_slug_required(cs, instance, slug) ==
    IF instance # 0
    THEN \E c \in cs : c.page # instance /\ c.body = slug /\ c.type = "slug"
    ELSE \E c \in cs : c.body = slug /\ c.type = "slug"

\* the form of a new page under `parent` is submitted with that slug
StrictCreate(parent, slug) ==
    /\ NewId \in Ids
    /\ parent \in {0} \cup Stored
    /\ IF unique_slug_required(contents, 0, slug)
       THEN /\ last' = [Outcome("strict_create", 0, parent, "ValidationError", "", 0)
                           EXCEPT !.body = slug]
            /\ UNCHANGED <<pages, children>>
       ELSE LET id  == NewId
                ch1 == [k \in (DOMAIN children) |->
                            IF k = parent THEN Append(children[k], id) ELSE children[k]]
                r   == save(pages, ch1, id, NewPage(parent, slug), "", now)
            IN /\ pages' = r.pages
               /\ children' = ch1
               /\ last' = [Outcome("strict_create", id, parent, "ok", r.base, r.next)
                              EXCEPT !.body = slug]
    /\ UNCHANGED <<held, calls, settings, aliases, contents, cache, now, proc>>

\* the form of the stored page p is submitted with that slug
StrictChange(p, slug) ==
    /\ p \in Stored
    /\ IF unique_slug_required(contents, p, slug)
       THEN /\ last' = [Outcome("strict_change", p, pages[p].parent, "ValidationError", "", 0)
                           EXCEPT !.body = slug]
            /\ UNCHANGED pages
       ELSE LET r == save(pages, children, p, [pages[p] EXCEPT !.slug = slug],
                          pages[p].complete_slug, now)
            IN /\ pages' = r.pages
               /\ last' = [Outcome("strict_change", p, pages[p].parent, "ok", r.base, r.next)
                              EXCEPT !.body = slug]
    /\ UNCHANGED <<held, calls, settings, aliases, children, contents, cache, now, proc>>

\* pages edited through the form while the "slug" content of the first
\* page is written
NextStrict ==
    \/ \E parent \in {0} \cup Ids, slug \in Slugs : StrictCreate(parent, slug)
    \/ \E p \in Ids, slug \in Slugs : StrictChange(p, slug)
    \/ \E body \in Slugs : SetOrCreateContent(1, Languages[1], "slug", body)

SpecStrict == Init /\ [][NextStrict]_vars

-----------------------------------------------------------------------------
(* A page object loaded once and saved several times *)

\* page = Page.objects.get(id=p): Page.__init__ (lines 132-141) copies the
\* stored complete slug to _original_complete_slug
Load(p) ==
    /\ p \in Stored
    /\ held' = Holding(p, pages[p], pages[p].complete_slug)
    /\ last' = Outcome("load", p, 0, "ok", "", 0)
    /\ UNCHANGED <<calls, settings, aliases, pages, children, contents, cache, now, proc>>

\* page.slug = slug; page.save() on the object kept: the save assigns
\* complete_slug on the object and leaves _original_complete_slug alone
HeldSave(slug) ==
    /\ held.id \in Stored
    /\ LET r == save(pages, children, held.id, [held.inst EXCEPT !.slug = slug],
                     held.original, now)
       IN /\ pages' = r.pages
          /\ held' = [held EXCEPT !.inst = r.pages[held.id]]
          /\ last' = Outcome("held_save", held.id, 0, "ok", r.base, r.next)
    /\ UNCHANGED <<calls, settings, aliases, children, contents, cache, now, proc>>

NextHeld ==
    \/ \E parent \in {0} \cup Ids, slug \in Slugs : CreatePage(parent, slug)
    \/ \E p \in Ids : Load(p)
    \/ \E slug \in Slugs : HeldSave(slug)

SpecHeld == Init /\ [][NextHeld]_vars

-----------------------------------------------------------------------------
(* A page saved twice in a row *)

\* the calls of `last` that end with Page.save of the page last.id
SavingCalls == {"create", "save", "move_to", "save_again"}

\* page.save() once more on the page the last call saved, no field
\* changed; `last` keeps in value the complete slug the first save stored
SaveAgain ==
    /\ last.op \in SavingCalls
    /\ last.result = "ok"
    /\ last.id \in Stored
    /\ LET p == last.id
           r == save(pages, children, p, pages[p], pages[p].complete_slug, now)
       IN /\ pages' = r.pages
          /\ last' = [Outcome("save_again", p, 0, "ok", r.base, r.next)
                         EXCEPT !.value = pages[p].complete_slug]
    /\ UNCHANGED <<held, calls, settings, aliases, children, contents, cache, now, proc>>

\* the number of pages of the site whose pages are saved twice
MaxAgain == 4

\* a site built by Page(slug="b").save() four times: a root page, two
\* children of it, and a child of the first of these
InitAgain ==
    /\ pages = <<[NewPage(0, "b") EXCEPT !.complete_slug = "b",
                                         !.last_modification_date = 1],
                 [NewPage(1, "b") EXCEPT !.complete_slug = "b/b",
                                         !.last_modification_date = 1],
                 [NewPage(1, "b") EXCEPT !.complete_slug = "b/b-1",
                                         !.last_modification_date = 1],
                 [NewPage(2, "b") EXCEPT !.complete_slug = "b/b/b",
                                         !.last_modification_date = 1]>>
    /\ children = [k \in 0..MaxAgain |->
                       IF k = 0 THEN <<1>> ELSE IF k = 1 THEN <<2, 3>>
                       ELSE IF k = 2 THEN <<4>> ELSE <<>>]
    /\ contents = {}
    /\ cache = <<>>
    /\ now = 1
    /\ last = NoOutcome
    /\ proc = IdleProc
    /\ settings = EnforcingSettings
    /\ calls = NoCalls
    /\ held = NoHeld
    /\ aliases = {}

\* the root page renamed, pages made the last child of another page, and
\* the page just saved saved again
NextAgain ==
    \/ \E slug \in Slugs : ChangeSlug(1, slug)
    \/ \E p \in 1..MaxAgain, target \in 1..MaxAgain : MoveTo(p, target, "last-child")
    \/ SaveAgain

SpecAgain == InitAgain /\ [][NextAgain]_vars

-----------------------------------------------------------------------------
(* automatic_slug_renaming (admin/forms.py lines 23-37), statement by      *)
(* statement.  is_slug_safe is given by the set of the slugs it accepts;   *)
(* `last` holds the running call: the slug (body), the set (given), count  *)
(* (next), new_slug (value) and whether it has returned (result).          *)

\* the largest count the loop is followed to
MaxSuffix == 4

\* variant: the count starts at one
FirstCountOne == 2 - 1

\* the first value of count (line 32)
FirstCount == 2

\* slug + "-" + str(count) (lines 33 and 36)
NewSlug(slug, count) == slug \o "-" \o ToString(count)

\* the slugs is_slug_safe is asked about for that slug, and "slug-1"
Renamings(slug) == {slug} \cup {NewSlug(slug, k) : k \in 1..MaxSuffix}

Renaming(result, slug, safe, count, new_slug) ==
    [NoOutcome EXCEPT !.op = "automatic_slug_renaming", !.result = result,
                      !.body = slug, !.given = <<safe>>, !.next = count,
                      !.value = new_slug]

\* the call, lines 26-33: the slug is returned when it is safe
AutomaticSlugRenaming(slug, safe) ==
    /\ last.result # "running"
    /\ safe \in SUBSET Renamings(slug)
    /\ last' = IF slug \in safe
               THEN Renaming("returned", slug, safe, 0, slug)
               ELSE Renaming("running", slug, safe, FirstCount, NewSlug(slug, FirstCount))
    /\ UNCHANGED <<held, calls, settings, aliases, pages, children, contents, cache, now, proc>>

\* lines 34-36, the test true
RenamingLoop ==
    /\ last.op = "automatic_slug_renaming" /\ last.result = "running"
    /\ last.value \notin last.given[1]
    /\ last.next < MaxSuffix
    /\ last' = [last EXCEPT !.next = last.next + 1,
                            !.value = NewSlug(last.body, last.next + 1)]
    /\ UNCHANGED <<held, calls, settings, aliases, pages, children, contents, cache, now, proc>>

\* line 34, the test false; line 37
RenamingReturn ==
    /\ last.op = "automatic_slug_renaming" /\ last.result = "running"
    /\ last.value \in last.given[1]
    /\ last' = [last EXCEPT !.result = "returned"]
    /\ UNCHANGED <<held, calls, settings, aliases, pages, children, contents, cache, now, proc>>

NextRenaming ==
    \/ \E slug \in Slugs, safe \in SUBSET (UNION {Renamings(x) : x \in Slugs}) :
           AutomaticSlugRenaming(slug, safe)
    \/ RenamingLoop
    \/ RenamingReturn

\* a call that has started runs on
SpecRenaming == Init /\ [][NextRenaming]_vars /\ WF_vars(RenamingLoop \/ RenamingReturn)

-----------------------------------------------------------------------------
(* Page aliases.  A url is the sequence of its characters; `aliases` is    *)
(* the PageAlias table, a set of rows [page, url] with url unique.         *)

\* pages.utils.normalize_url: "/" for an empty url, a leading slash added
\* when missing, one trailing slash removed
normalize_url(url) ==
    IF url = <<>> THEN <<"/">>
    ELSE LET u1 == IF Head(url) # "/" THEN <<"/">> \o url ELSE url
         IN IF Len(u1) > 1 /\ u1[Len(u1)] = "/"
            THEN SubSeq(u1, 1, Len(u1) - 1)
            ELSE u1

\* the value from_path returns when no alias is found
NoAlias == <<>>

\* PageAlias.objects.get(url=url); the url column is unique
AliasGet(al, url) ==
    IF \E a \in al : a.url = url
    THEN CHOOSE a \in al : a.url = url
    ELSE NoAlias

\* variant: the path alone is tried first
from_path_path_first(al, path, query) ==
    IF AliasGet(al, normalize_url(path)) # NoAlias
    THEN AliasGet(al, normalize_url(path))
    ELSE IF query # <<>>
         THEN AliasGet(al, normalize_url(path) \o <<"?">> \o query)
         ELSE NoAlias

\* PageAliasManager.from_path (lines 270-302); query is
\* request.META.get('QUERY_STRING'), <<>> when empty or missing
from_path(al, path, query) ==
    LET url1 == IF query # <<>>
                THEN normalize_url(path) \o <<"?">> \o query
                ELSE normalize_url(path)
        url2 == normalize_url(path)
    IN IF AliasGet(al, url1) # NoAlias THEN AliasGet(al, url1)
       ELSE AliasGet(al, url2)

\* the raw paths and query strings of requests, and the raw urls given to
\* new aliases
Paths ==
    {<<>>, <<"/">>, <<"a">>, <<"/", "a">>, <<"a", "/">>, <<"/", "a", "/">>}

Queries == {<<>>, <<"q">>, <<"q", "/">>}

AliasUrls == Paths \cup {p \o <<"?">> \o q : p \in Paths, q \in Queries \ {<<>>}}

\* PageAlias(page=page, url=url).save() (models.py 546-549): the url is
\* normalized; the unique index rejects a url that is already stored
AliasSave(page, url) ==
    /\ page \in Stored
    /\ LET row == [page |-> page, url |-> normalize_url(url)]
           dup == \E a \in aliases : a.url = row.url
       IN /\ aliases' = IF dup THEN aliases ELSE aliases \cup {row}
          /\ last' = [Outcome("alias_save", page, 0,
                              IF dup THEN "IntegrityError" ELSE "ok", "", 0)
                         EXCEPT !.given = [url |-> url]]
    /\ UNCHANGED <<held, calls, settings, pages, children, contents, cache, now, proc>>

\* alias.delete()
AliasDelete(url) ==
    /\ \E a \in aliases : a.url = url
    /\ aliases' = {a \in aliases : a.url # url}
    /\ last' = [Outcome("alias_delete", 0, 0, "ok", "", 0)
                   EXCEPT !.given = [url |-> url]]
    /\ UNCHANGED <<held, calls, settings, pages, children, contents, cache, now, proc>>

\* PageAlias.objects.from_path(request, path, lang)
FromPath(path, query) ==
    /\ last' = [Outcome("from_path", 0, 0, "ok", "", 0)
                   EXCEPT !.given = [path |-> path, query |-> query,
                                     alias |-> from_path(aliases, path, query)]]
    /\ UNCHANGED <<held, calls, settings, aliases, pages, children, contents, cache, now, proc>>

\* a site with a root page and a child page, no alias yet
InitAlias == InitContent

NextAlias ==
    \/ \E page \in Ids, url \in AliasUrls : AliasSave(page, url)
    \/ \E a \in aliases : AliasDelete(a.url)
    \/ \E path \in Paths, query \in Queries : FromPath(path, query)

SpecAlias == InitAlias /\ [][NextAlias]_vars

-----------------------------------------------------------------------------
(* Properties of the page tree *)

\* the path a page has by its parent and slug alone
ExpectedBase(pgs, id) ==
    IF pgs[id].parent = 0 THEN pgs[id].slug
    ELSE pgs[pgs[id].parent].complete_slug \o "/" \o pgs[id].slug

\* some page other than id held cs before the step
HeldBefore(cs, id) ==
    \E q \in (DOMAIN pages) \ {id} : pages[q].complete_slug = cs

\* the first count from `first` on whose suffixed path nobody else held
LeastSuffix(base, id, first) ==
    CHOOSE k \in first..(first + MaxPages) :
        /\ ~HeldBefore(base \o "-" \o ToString(k), id)
        /\ \A j \in first..(k - 1) : HeldBefore(base \o "-" \o ToString(j), id)

\* q is a descendant of p by the parent column
IsDescendant(pgs, q, p) == p \in SeqToSet(get_ancestors(pgs, q))

\* C1: every stored page's complete_slug is its parent's complete_slug,
\* "/" and its slug, or its slug alone for a root page.
C1_CompleteSlugFromParent ==
    \A p \in Stored : pages[p].complete_slug = ExpectedBase(pages, p)

\* C2: no two distinct stored pages have the same complete_slug.
C2_CompleteSlugsDistinct ==
    \A p, q \in Stored : p # q => pages[p].complete_slug # pages[q].complete_slug

\* the step was a Page.save (of a new or a loaded page) whose computed
\* path another page held
SaveCollided ==
    /\ last'.op \in {"create", "save"}
    /\ HeldBefore(ExpectedBase(pages', last'.id), last'.id)

\* C4 (as stated): a colliding save stores the path with the first free
\* suffix of "-2", "-3", ...
C4_FirstSuffixIsTwo ==
    [][SaveCollided =>
         pages'[last'.id].complete_slug =
             ExpectedBase(pages', last'.id) \o "-" \o
                 ToString(LeastSuffix(ExpectedBase(pages', last'.id), last'.id, 2))]_vars

\* C4 (amended): a colliding save stores the path with the first free
\* suffix of "-1", "-2", "-3", ...; a second root "a" is stored as "a-1".
C4_FirstSuffixIsOne ==
    [][SaveCollided =>
         pages'[last'.id].complete_slug =
             ExpectedBase(pages', last'.id) \o "-" \o
                 ToString(LeastSuffix(ExpectedBase(pages', last'.id), last'.id, 1))]_vars

\* a second root page with slug "a" was just saved next to a root "a"
C4_Witness ==
    /\ last.op = "create"
    /\ pages[last.id].parent = 0
    /\ pages[last.id].slug = "a"
    /\ pages[last.id].complete_slug = "a-1"
    /\ \E q \in Stored : q # last.id /\ pages[q].complete_slug = "a"

\* the step was a move_to with a legal target
MovedLegally ==
    /\ last'.op = "move_to"
    /\ last'.target # last'.id
    /\ ~IsDescendant(pages, last'.target, last'.id)

\* the moved page has a sibling with its slug under its new parent
SameSlugSibling ==
    \E q \in Stored \ {last'.id} :
        /\ pages[q].parent = pages'[last'.id].parent
        /\ pages[q].slug = pages'[last'.id].slug

C6_ValidTargets ==
    \A p \in Stored :
        valid_targets(pages, children, p) =
            {q \in Stored : q # p /\ ~IsDescendant(pages, q, p)}

\* a page with a parent and a child: its only valid target is the parent
C6_Witness ==
    \E p, q, r \in Stored :
        /\ pages[q].parent = p /\ pages[r].parent = q
        /\ valid_targets(pages, children, q) = {p}
        /\ valid_targets(pages, children, p) = {}

\* C7: move_to onto the page itself or one of its descendants is rejected
\* and leaves every page's parent, tree position and complete_slug as
\* they were.
C7_InvalidMoveRejected ==
    [][(last'.op = "move_to" /\
        (last'.target = last'.id \/ IsDescendant(pages, last'.target, last'.id))) =>
         /\ last'.result = "InvalidMove"
         /\ children' = children
         /\ DOMAIN pages' = DOMAIN pages
         /\ \A q \in Stored :
                /\ pages'[q].parent = pages[q].parent
                /\ pages'[q].complete_slug = pages[q].complete_slug]_vars

\* a move onto a descendant was just rejected, in a tree where the page's
\* stored path differs from the one a save would now give it
C7_Witness ==
    /\ last.op = "move_to" /\ last.result = "InvalidMove"
    /\ IsDescendant(pages, last.target, last.id)
    /\ pages[last.id].complete_slug # ExpectedBase(pages, last.id)


\* C3: the collision loop ends after at most one turn per other stored
\* page, each turn trying the next count as suffix, and the save then
\* stores the free path it found: no collision makes it fail.
C3_CollisionLoopTerminates ==
    /\ [](proc.pc = "loop" => proc.next <= Cardinality(Stored \ {proc.id}) + 1)
    /\ [][(proc.pc = "loop" /\ proc'.pc = "loop") =>
             /\ proc'.next = proc.next + 1
             /\ proc'.inst.complete_slug = proc.base \o "-" \o ToString(proc.next)]_vars
    /\ [][(proc.pc = "loop" /\ proc'.pc # "loop") =>
             /\ proc.id \in DOMAIN pages'
             /\ pages'[proc.id].complete_slug = proc.inst.complete_slug
             /\ ~HeldBefore(proc.inst.complete_slug, proc.id)]_vars
    /\ (proc.pc = "loop") ~> (proc.pc # "loop")

\* a save has left the loop after two turns: two other pages held the
\* paths it tried first
C3_Witness ==
    /\ proc.pc = "idle"
    /\ last.result = "ok"
    /\ last.next = 3
    /\ pages[last.id].complete_slug = last.base \o "-2"
    /\ \E q, r \in Stored \ {last.id} :
           /\ pages[q].complete_slug = last.base
           /\ pages[r].complete_slug = last.base \o "-1"


-----------------------------------------------------------------------------
(* Properties of the content store *)

LastKeyVersions == VersionsOf(contents, last.id, last.language, last.ctype)

PairwiseDistinct(q) == \A i, j \in 1..Len(q) : i # j => q[i] # q[j]

\* C8: a second call of create_content_if_changed with the arguments of
\* the call before it leaves the content table as it is, creates nothing
\* and returns the latest version of the key, which has the body given.
C8_CreateIfChangedIdempotent ==
    [][(/\ last.op = "create_content_if_changed"
        /\ last'.op = "create_content_if_changed"
        /\ last'.id = last.id /\ last'.language = last.language
        /\ last'.ctype = last.ctype /\ last'.body = last.body) =>
         /\ contents' = contents
         /\ ~last'.created
         /\ last'.stamp = last.stamp
         /\ LET rows == VersionsOf(contents, last.id, last.language, last.ctype)
            IN /\ rows # {}
               /\ \A c \in rows : c.creation_date <= last'.stamp
               /\ \E c \in rows : c.creation_date = last'.stamp /\ c.body = last.body]_vars

\* the call was repeated with the same body on a key that holds as many
\* versions as are kept
C8_Witness ==
    /\ last.op = "create_content_if_changed"
    /\ Len(last.bodies) >= 2
    /\ last.bodies[Len(last.bodies)] = last.bodies[Len(last.bodies) - 1]
    /\ ~last.created
    /\ Cardinality(LastKeyVersions) = RevisionDepth

\* C9: no key ever holds more than RevisionDepth versions, and after
\* RevisionDepth + 1 calls of create_content_if_changed in a row for one
\* key with pairwise distinct bodies the key holds exactly RevisionDepth
\* versions: those of the last RevisionDepth calls, in the order of the calls.
C9_Retention ==
    /\ \A page \in Stored, l \in SeqToSet(Languages), t \in ContentTypes :
           Cardinality(VersionsOf(contents, page, l, t)) <= RevisionDepth
    /\ (/\ last.op = "create_content_if_changed"
        /\ Len(last.bodies) = RevisionDepth + 1
        /\ PairwiseDistinct(last.bodies)) =>
           /\ Cardinality(LastKeyVersions) = RevisionDepth
           /\ \A i \in 2..(RevisionDepth + 1) :
                  \E c \in LastKeyVersions :
                      /\ c.body = last.bodies[i]
                      /\ Cardinality({d \in LastKeyVersions :
                                         d.creation_date > c.creation_date})
                             = RevisionDepth + 1 - i

\* RevisionDepth + 1 calls with pairwise distinct bodies were made in a row
C9_Witness ==
    /\ last.op = "create_content_if_changed"
    /\ Len(last.bodies) = RevisionDepth + 1
    /\ PairwiseDistinct(last.bodies)
    /\ last.created

\* C10: for a page with a freeze date, get_content (without language
\* fallback) returns the body of the latest version of the key created at
\* or before the freeze date, the empty string if there is none.
C10_FrozenReadIsLatestBeforeFreeze ==
    (/\ last.op = "get_content"
     /\ ~last.fallback
     /\ pages[last.id].freeze_date # NoDate) =>
        LET rows == {c \in LastKeyVersions :
                        c.creation_date <= pages[last.id].freeze_date}
        IN last.value = IF rows = {} THEN ""
                        ELSE (CHOOSE c \in rows :
                                 \A d \in rows : d.creation_date <= c.creation_date).body

\* C11: on a page without freeze date, the get_content that follows a
\* write of body b for the same (page, language, type) returns b, whatever
\* was read and cached before the write.
C11_ReadAfterWriteReturnsBody ==
    [][(/\ last.op \in {"create_content_if_changed", "set_or_create_content"}
        /\ last'.op = "get_content"
        /\ last'.id = last.id /\ last'.language = last.language
        /\ last'.ctype = last.ctype
        /\ pages[last.id].freeze_date = NoDate) =>
           last'.value = last.body]_vars

\* the body get_content_object finds now for a language, "" if none
CurrentBody(page, language, ctype) ==
    LET o == get_content_object(contents, pages, page, language, ctype)
    IN IF o.found THEN o.body ELSE ""

\* the first language of the configured list, from position i on, whose
\* current body is not empty; "" if there is none
RECURSIVE FirstCurrentBody(_, _, _)
FirstCurrentBody(page, ctype, i) ==
    IF i > Len(Languages) THEN ""
    ELSE IF CurrentBody(page, Languages[i], ctype) # ""
         THEN CurrentBody(page, Languages[i], ctype)
         ELSE FirstCurrentBody(page, ctype, i + 1)

\* C12: get_content returns the current body of the language when it is
\* not empty; otherwise, with language fallback, the current body of the
\* first configured language that has one; otherwise the empty string.
C12_FallbackOrder ==
    last.op = "get_content" =>
        last.value =
            IF CurrentBody(last.id, last.language, last.ctype) # ""
            THEN CurrentBody(last.id, last.language, last.ctype)
            ELSE IF last.fallback THEN FirstCurrentBody(last.id, last.ctype, 1)
            ELSE ""

\* C13: get_content with a content type that contains a space ends with
\* ValueError (and only then), and the rejected call leaves the Content
\* table and the cache as they were.
C13_SpacedTypeRejected ==
    /\ [](last.op = "get_content" =>
             (last.result = "ValueError" <=> HasSpace(last.ctype)))
    /\ [][(last'.op = "get_content" /\ HasSpace(last'.ctype)) =>
             /\ last'.result = "ValueError"
             /\ contents' = contents
             /\ cache' = cache]_vars

\* a call with a spaced type was rejected while content and cache entries
\* existed
C13_Witness ==
    /\ last.op = "get_content"
    /\ HasSpace(last.ctype)
    /\ last.result = "ValueError"
    /\ contents # {}
    /\ cache # <<>>

-----------------------------------------------------------------------------
(* Properties of the publication status *)

\* the derivation of the status from the stored status and the two dates,
\* a null date comparing false
ReferenceStatus(page) ==
    CASE settings.PAGE_SHOW_START_DATE /\ page.publication_date # NoDate
         /\ page.publication_date > now -> DRAFT
      [] OTHER ->
         IF settings.PAGE_SHOW_END_DATE /\ page.publication_end_date # NoDate
            /\ page.publication_end_date < now
         THEN EXPIRED ELSE page.status

C16_ExpiryOnlyFromPublishedOrHidden ==
    \A p \in Stored :
        calculated_status(pages[p], now, settings) = EXPIRED =>
            /\ pages[p].status \in {PUBLISHED, HIDDEN}
            /\ pages[p].publication_end_date # NoDate
            /\ pages[p].publication_end_date < now

\* the page was last saved before its publication date, under start-date
\* enforcement
SavedBeforePublication(p) ==
    /\ settings.PAGE_SHOW_START_DATE
    /\ pages[p].publication_date # NoDate
    /\ pages[p].last_modification_date < pages[p].publication_date

\* C17 as stated: such a page is Draft while now < publication_date and has
\* its stored status from then on.
C17_StoredStatusFromPublicationDate ==
    \A p \in Stored :
        SavedBeforePublication(p) =>
            /\ now < pages[p].publication_date =>
                   calculated_status(pages[p], now, settings) = DRAFT
            /\ now >= pages[p].publication_date =>
                   calculated_status(pages[p], now, settings) = pages[p].status

\* C17: such a page is Draft while now < publication_date; from then on it
\* is Expired when end dates are enforced and publication_end_date < now,
\* and has its stored status otherwise.
C17_StatusFromPublicationDate ==
    \A p \in Stored :
        SavedBeforePublication(p) =>
            /\ now < pages[p].publication_date =>
                   calculated_status(pages[p], now, settings) = DRAFT
            /\ now >= pages[p].publication_date =>
                   calculated_status(pages[p], now, settings) =
                       IF /\ settings.PAGE_SHOW_END_DATE
                          /\ pages[p].publication_end_date # NoDate
                          /\ pages[p].publication_end_date < now
                       THEN EXPIRED ELSE pages[p].status

\* a page saved as Published with a date ahead has become Published by the
\* passing of time alone
C17_Witness ==
    /\ last.op = "save"
    /\ SavedBeforePublication(last.id)
    /\ last.stamp < pages[last.id].publication_date
    /\ now = pages[last.id].publication_date
    /\ pages[last.id].status = PUBLISHED
    /\ calculated_status(pages[last.id], now, settings) = PUBLISHED
    /\ calculated_status(pages[last.id], last.stamp, settings) = DRAFT

\* a step that is a save of a page with given status and dates
IsSaveStep == last'.op = "save" /\ last'.given # <<>> /\ now' = now

\* C18: every stored page with status Published has a publication date; a
\* save with status Published and no publication date stores the time of
\* the save, a save with a publication date given stores that date.
C18_PublishedHasDate ==
    /\ [](\A p \in Stored :
             pages[p].status = PUBLISHED => pages[p].publication_date # NoDate)
    /\ [][(IsSaveStep /\ last'.given.status = PUBLISHED) =>
             /\ pages'[last'.id].status = PUBLISHED
             /\ pages'[last'.id].publication_date =
                    IF last'.given.publication_date = NoDate THEN now
                    ELSE last'.given.publication_date]_vars

\* a page was saved as Published without a date and carries the time of
\* that save, which has passed since
C18_Witness ==
    /\ last.op = "save"
    /\ last.given # <<>>
    /\ last.given.status = PUBLISHED
    /\ last.given.publication_date = NoDate
    /\ pages[last.id].publication_date = last.stamp
    /\ last.stamp > 1
    /\ now > last.stamp

-----------------------------------------------------------------------------
(* Properties of the aliases *)

\* the position of the first "?" of a url, 0 if it has none
RECURSIVE FirstMark(_, _)
FirstMark(url, i) ==
    IF i > Len(url) THEN 0
    ELSE IF url[i] = "?" THEN i ELSE FirstMark(url, i + 1)

\* the path and the query string a request for the url carries
RequestPath(url) ==
    IF FirstMark(url, 1) = 0 THEN url ELSE SubSeq(url, 1, FirstMark(url, 1) - 1)

RequestQuery(url) ==
    IF FirstMark(url, 1) = 0 THEN <<>>
    ELSE SubSeq(url, FirstMark(url, 1) + 1, Len(url))

EndsWithSlash(q) == q # <<>> /\ q[Len(q)] = "/"

\* the answer of the last from_path is the alias for the normalized path
\* with the query string when there is one, else the alias for the
\* normalized path alone, else none
FromPathAnswer ==
    last.op = "from_path" =>
        LET n    == normalize_url(last.given.path)
            full == n \o <<"?">> \o last.given.query
            got  == last.given.alias
        IN IF last.given.query # <<>> /\ (\E a \in aliases : a.url = full)
           THEN got \in aliases /\ got.url = full
           ELSE IF \E a \in aliases : a.url = n
           THEN got \in aliases /\ got.url = n
           ELSE got = NoAlias

\* a call of from_path leaves the alias table as it is
FromPathReadOnly == [][last'.op = "from_path" => aliases' = aliases]_vars

\* the alias just saved for the url given is what resolving that url finds
SavedAliasFound ==
    LET got == from_path(aliases, RequestPath(last.given.url),
                         RequestQuery(last.given.url))
    IN /\ got \in aliases
       /\ got.page = last.id
       /\ got.url = normalize_url(last.given.url)

-----------------------------------------------------------------------------
(* Properties of the cached page queries *)

\* the key belongs to page q: it carries the id of q, or it is the key of
\* the first root
DerivableFor(k, q) == k[2] = q \/ k[1] = "PAGE_FIRST_ROOT_ID"

\* C21: after Page.invalidate on a page the cache holds no key of that
\* page or of any of its ancestors: languages, children, published
\* children, url, PARENT_FOR, first root, and the content mappings.
C21_InvalidateClearsChain ==
    last.op = "invalidate" =>
        \A q \in {last.id} \cup SeqToSet(get_ancestors(pages, last.id)) :
            \A k \in DOMAIN cache : ~DerivableFor(k, q)

\* C22: is_first_root on a page just loaded answers true exactly when the
\* page has no parent and is the first root page in tree order.
C22_FirstRootAnswer ==
    last.op = "is_first_root" =>
        (last.answer <=> (/\ pages[last.id].parent = 0
                          /\ root(children)[1] = last.id))

\* the two processes have each returned from a save, of two different pages
\* that have the same parent and the same slug, and the rows are as saved
SavedTwins ==
    /\ calls[1].pc = "done" /\ calls[2].pc = "done"
    /\ calls[1].id # calls[2].id
    /\ \A w \in Workers : /\ pages[calls[w].id].parent = calls[w].inst.parent
                          /\ pages[calls[w].id].slug = calls[w].inst.slug
    /\ calls[1].inst.parent = calls[2].inst.parent
    /\ calls[1].inst.slug = calls[2].inst.slug

\* C23: two saves of different pages with the same parent and slug, run at
\* the same time, never leave both pages with the same complete slug.
C23_ConcurrentSavesDistinct ==
    SavedTwins =>
        pages[calls[1].id].complete_slug # pages[calls[2].id].complete_slug

\* the descendants the running save has not rewritten yet and whose stored
\* complete slug is still the one built before the save
StillOldBased ==
    {d \in SeqToSet(proc.queue) :
        pages[d].complete_slug # Cascade(pages, proc.queue)[d].complete_slug}

\* C24: the cascade of a save or move is all or nothing: in no state between
\* its steps is the saved page stored with its new complete slug while a
\* descendant still carries a complete slug built from the old one.
C24_CascadeAllOrNothing ==
    (/\ proc.pc = "cascade"
     /\ pages[proc.id].complete_slug # proc.original) => StillOldBased = {}

\* C25: a call of the cache that fails during get_content, get_languages,
\* is_first_root, invalidate or move_to never fails the operation: the
\* operation ends without the cache's error.
C25_CacheFailureSwallowed == last.result # "CacheError"

\* the pages whose stored complete slug is the text of the path asked for
PagesAt(path) == {q \in Stored : pages[q].complete_slug = path.body}

\* C26: from_path of a stored page's complete slug, with or without slashes
\* at its ends, returns that page; from_path of a path that is no page's
\* complete slug returns no page; from_path of the empty path returns the
\* first root page, or no page when there is none.
C26_PathLookupInverse ==
    last.op = "page_from_path" =>
        LET path == last.given[1]
        IN /\ last.result = "ok"
           /\ IF EmptyPath(path)
              THEN last.id = (IF root(children) # <<>> THEN root(children)[1] ELSE 0)
              ELSE IF PagesAt(path) = {} THEN last.id = 0
              ELSE last.id \in PagesAt(path)

\* the form was submitted in this step
StrictStep == last'.op \in {"strict_create", "strict_change"} /\ last' # last

\* the complete slug the submitted page would get is that of another page
TargetTaken ==
    from_complete_slug_exists(pages, BaseSlug(pages, last'.target, last'.body),
                              IF last'.op = "strict_change" THEN last'.id ELSE 0)

\* C27: the form refuses a page exactly when the complete slug it would get
\* is that of another page (the same slug under another parent is accepted,
\* a page does not collide with itself), and a refusal leaves the pages as
\* they were.
C27_StrictPathRejectsDuplicates ==
    [][StrictStep =>
          /\ (last'.result = "ValidationError") <=> TargetTaken
          /\ last'.result = "ValidationError" => pages' = pages]_vars

\* set_or_create_content was called in this step
SetStep == last'.op = "set_or_create_content" /\ last' # last

\* the versions in table cs of the key given to the last call (of the step)
SetKeyVersions(cs) == VersionsOf(cs, last'.id, last'.language, last'.ctype)

\* C28: set_or_create_content replaces the body of the latest version of the
\* key when there is one and creates a version only when there is none: the
\* key then has max(1, number before) versions, its latest version has the
\* body given, and the versions of every other key are as before.
C28_SetOrCreateOverwritesLatest ==
    [][SetStep =>
          /\ Cardinality(SetKeyVersions(contents')) =
                 (IF SetKeyVersions(contents) = {} THEN 1
                  ELSE Cardinality(SetKeyVersions(contents)))
          /\ Latest(SetKeyVersions(contents')).body = last'.body
          /\ contents' \ SetKeyVersions(contents') = contents \ SetKeyVersions(contents)]_vars

\* the body of the latest of two versions was replaced, the earlier version
\* keeping another body
C28_Witness ==
    /\ last.op = "set_or_create_content"
    /\ ~last.created
    /\ LET rows == VersionsOf(contents, last.id, last.language, last.ctype)
       IN /\ Cardinality(rows) = 2
          /\ Latest(rows).body = last.body
          /\ \E c \in rows : c.body # last.body

\* the descendants the running cascade has already saved
Visited == SeqToSet(get_descendants(children, proc.id)) \ SeqToSet(proc.queue)

\* C29: the cascade of Page.save goes through the descendants in ascending
\* tree order, every descendant after its parent: each descendant it has
\* saved carries the complete slug built from its parent's new complete slug,
\* and so does every descendant, at every depth, when the cascade ends.
C29_CascadeTopDown ==
    proc.pc = "cascade" =>
        \A d \in Visited :
            pages[d].complete_slug = BaseSlug(pages, pages[d].parent, pages[d].slug)

\* the cascade of a save that changed a page's complete slug has ended, the
\* page having a child and a grandchild
C29_Witness ==
    /\ proc.pc = "cascade" /\ proc.queue = <<>>
    /\ proc.op = "save"
    /\ pages[proc.id].complete_slug # proc.original
    /\ \E c \in Stored, g \in Stored :
          /\ pages[c].parent = proc.id /\ pages[g].parent = c
          /\ pages[g].complete_slug =
                 pages[proc.id].complete_slug \o "/" \o pages[c].slug \o "/" \o pages[g].slug

\* the page object kept in memory was saved in this step and the save
\* changed the complete slug stored for the page
HeldSaveChanged ==
    /\ last'.op = "held_save"
    /\ pages'[last'.id].complete_slug # pages[last'.id].complete_slug

\* C30: a save that changes the stored complete slug of a page cascades to
\* its descendants, also when the same page object is saved several times in
\* a row: after the save every descendant's complete slug is built from its
\* parent's stored complete slug.
C30_RepeatedSaveCascades ==
    [][HeldSaveChanged =>
          \A d \in SeqToSet(get_descendants(children, last'.id)) :
              pages'[d].complete_slug = BaseSlug(pages', pages'[d].parent, pages'[d].slug)]_vars

\* the languages in which the page has at least one version
LanguagesOf(page) == {c.language : c \in {d \in contents : d.page = page}}

\* C31: get_languages returns the list, in ascending order and without
\* duplicates, of exactly the languages in which the page has content at the
\* time of the call.
C31_LanguagesAreCurrent ==
    last.op = "get_languages" =>
        /\ SeqToSet(last.given) = LanguagesOf(last.id)
        /\ Len(last.given) = Cardinality(LanguagesOf(last.id))
        /\ last.given = sorted(SeqToSet(last.given))

\* the counts from 2 on whose renaming is_slug_safe accepts
SafeCounts == {k \in 2..MaxSuffix : NewSlug(last.body, k) \in last.given[1]}

\* the call of automatic_slug_renaming has returned
Renamed == last.op = "automatic_slug_renaming" /\ last.result = "returned"

\* C32: automatic_slug_renaming returns the slug when is_slug_safe accepts
\* it, otherwise the slug with "-k" for the least k >= 2 that is_slug_safe
\* accepts; what it returns is accepted; the call returns whenever there is
\* such a k.
C32_AutomaticRenaming ==
    /\ [](Renamed =>
            /\ last.value \in last.given[1]
            /\ IF last.body \in last.given[1] THEN last.value = last.body
               ELSE \E k \in SafeCounts :
                       /\ last.value = NewSlug(last.body, k)
                       /\ \A j \in SafeCounts : k <= j)
    /\ ((last.op = "automatic_slug_renaming" /\ last.result = "running"
            /\ SafeCounts # {}) ~> Renamed)

\* the slug and its first two renamings were refused, "slug-1" would have
\* been accepted, and the third renaming was returned
C32_Witness ==
    /\ Renamed
    /\ last.value = NewSlug(last.body, 4)
    /\ NewSlug(last.body, 1) \in last.given[1]

\* C33: with both dates enforced, a page is listed by published() exactly
\* when its calculated status at the time of the call is Published, also at
\* the instants now = publication_date and now = publication_end_date.
C33_PublishedAgreesWithStatus ==
    (last.op = "published" /\ settings = EnforcingSettings) =>
        \A p \in Stored :
            p \in last.given <=> calculated_status(pages[p], last.stamp, settings) = PUBLISHED

\* C34: every page listed by navigation() is a root page whose calculated
\* status at the time of the call is Published.
C34_NavigationIsLive ==
    last.op = "navigation" =>
        \A p \in last.given :
            /\ pages[p].parent = 0
            /\ calculated_status(pages[p], last.stamp, settings) = PUBLISHED


\* a content write made after the freeze date of a page that has one
WriteAfterFreeze(p) ==
    /\ p \in Stored
    /\ pages[p].freeze_date # NoDate
    /\ now > pages[p].freeze_date
    /\ pages' = pages
    /\ contents' # contents
    /\ last'.op \in {"create_content_if_changed", "set_or_create_content"}

\* C35: once a page has a freeze date, a later create_content_if_changed or
\* set_or_create_content, made at a time after that date, changes for no
\* language and type of the page what get_content_object returns
C35_FrozenReadStable ==
    [][\A p \in Ids, l \in SeqToSet(Languages), t \in ContentTypes :
          WriteAfterFreeze(p) =>
              get_content_object(contents', pages', p, l, t)
                  = get_content_object(contents, pages, p, l, t)]_vars


\* the pages of the subtree below p, p excluded
Below(p) == SeqToSet(get_descendants(children, p))

\* C36: a save of page p changes of each descendant of p nothing but its
\* complete_slug, and changes no field of a page that is neither p nor a
\* descendant of p
C36_CascadeFrame ==
    [][(last'.op = "save" /\ pages' # pages) =>
          \A q \in Stored \ {last'.id} :
              IF q \in Below(last'.id)
              THEN pages'[q] = [pages[q] EXCEPT !.complete_slug = pages'[q].complete_slug]
              ELSE pages'[q] = pages[q]]_vars

\* the root page was renamed after its published child was last saved, and
\* the cascade rewrote the child's path
C36_Witness ==
    /\ last.op = "save"
    /\ last.id = 1
    /\ pages[1].complete_slug = "b-1"
    /\ pages[2].complete_slug = "b-1/b"
    /\ pages[2].status = PUBLISHED
    /\ pages[2].freeze_date # NoDate
    /\ pages[2].last_modification_date < pages[1].last_modification_date


\* C37: a page saved a second time right after a save, with the same slug
\* and parent, is stored with the complete slug the first save stored: its
\* own row is no collision, and a suffixed complete slug gets no further
\* suffix
C37_SecondSaveSameSlug ==
    last.op = "save_again" => pages[last.id].complete_slug = last.value

\* the key of a version
KeyOf(c) == [page |-> c.page, language |-> c.language, type |-> c.type]

\* the key of the call recorded in a history record
CalledKey(h) == [page |-> h.id, language |-> h.language, type |-> h.ctype]

\* C38: a call of create_content_if_changed that changes the table leaves
\* every version of another page, language or content type as it was, adds
\* none there, and keeps the version it has just created
C38_PruningScoped ==
    [][(last'.op = "create_content_if_changed" /\ contents' # contents) =>
          /\ {c \in contents' : KeyOf(c) # CalledKey(last')}
                 = {c \in contents : KeyOf(c) # CalledKey(last')}
          /\ last'.created
          /\ NewContent(last'.id, last'.language, last'.ctype, last'.body, last'.stamp)
                 \in contents']_vars

\* a call has created a version and pruned its own key, whose versions of
\* before the clock started are gone, while every other key holds versions
C38_Witness ==
    /\ last.op = "create_content_if_changed"
    /\ last.created
    /\ CalledKey(last) = PruneKeys[1]
    /\ Cardinality(VersionsOf(contents, 1, "en", "body")) = RevisionDepth
    /\ \A c \in VersionsOf(contents, 1, "en", "body") : c.creation_date >= 1
    /\ \A i \in 2..Len(PruneKeys) :
           VersionsOf(contents, PruneKeys[i].page, PruneKeys[i].language,
                      PruneKeys[i].type) # {}

=============================================================================
